---------------------------- MODULE Spec2Model ----------------------------
(***************************************************************************)
(* Model of the Bliss engine: the symbol classifier                        *)
(* (symbol_classifier.py), the composer (composer.py) and the analyzer     *)
(* (analyzer.py), as a state machine whose actions are the engine's calls. *)
(*                                                                         *)
(* Text that the code inspects character by character (str.isdigit,        *)
(* str.lower, f-string concatenation) is a sequence of one-character       *)
(* strings: the symbol id "14905" is <<"1","4","9","0","5">>.  Text that   *)
(* is only compared for equality (POS colours, language codes, dictionary  *)
(* keys, message texts) is a TLA+ string.                                  *)
(***************************************************************************)
EXTENDS Integers, Sequences, FiniteSets, TLC

VARIABLES
    bliss_dict,     \* iteration order of the dictionary's keys (a Python dict is ordered)
    gloss_to_id,    \* BlissComposer.gloss_to_id, built at construction
    semantic_path_to_id,  \* BlissComposer.semantic_path_to_id, built at construction
    modifiers,      \* SymbolClassifier.modifiers, the set built at construction
    indicators,     \* SymbolClassifier.indicators, the set built at construction
    tables,         \* the dicts INDICATOR_SEMANTICS and MODIFIER_SEMANTICS of the
                    \* module data.bliss_semantics as they are now: the lists of
                    \* their entries are objects that a returned fact can share
    op,             \* the call in progress: "idle" between calls
    args,           \* the arguments of the call
    result,         \* what the call returned
    other           \* a second thread's call: its name ("idle" between calls), its
                    \* arguments, whether it is still under way and what it returned

vars ==
    <<bliss_dict, gloss_to_id, semantic_path_to_id, modifiers, indicators, tables,
      op, args, result, other>>

---------------------------------------------------------------------------
(* Bounds of the model *)

\* longest token sequence given to classify_composition
MaxLen == 4
\* largest total number of ids in the three optional lists of
\* compose_with_modifiers (one id in each list is always tried)
MaxIds == 2
\* largest total number of specifier glosses and semantic items in a specification
MaxItems == 2
\* longest composition given to analyze_composition (the composition of the
\* documented example is always tried)
MaxComp == 3

---------------------------------------------------------------------------
(* Text *)

\* Python None.  No symbol id, gloss or semantic value the model uses is the empty text.
None == <<>>

\* A character is a string of one character.  A string of this module can hold
\* the printable characters up to U+00FF and, beyond, the characters of the
\* basic plane whose code point ends in a byte of 80 to FF; the lowered form
\* of such a character that a string cannot hold is written as its escape
\* (the string \u0253 for U+0253).

\* the characters str.isdigit accepts
Digits ==
    {"0", "1", "2", "3", "4", "5", "6", "7", "8", "9", "²", "³",
     "¹", "۰", "۱", "۲", "۳", "۴", "۵", "۶", "۷", "۸", "۹", "߀",
     "߁", "߂", "߃", "߄", "߅", "߆", "߇", "߈", "߉", "০", "১", "২",
     "৩", "৪", "৫", "৬", "৭", "৮", "৯", "૦", "૧", "૨", "૩", "૪",
     "૫", "૬", "૭", "૮", "૯", "௦", "௧", "௨", "௩", "௪", "௫", "௬",
     "௭", "௮", "௯", "೦", "೧", "೨", "೩", "೪", "೫", "೬", "೭", "೮",
     "೯", "෦", "෧", "෨", "෩", "෪", "෫", "෬", "෭", "෮", "෯", "໐",
     "໑", "໒", "໓", "໔", "໕", "໖", "໗", "໘", "໙", "႐", "႑", "႒",
     "႓", "႔", "႕", "႖", "႗", "႘", "႙", "០", "១", "២", "៣", "៤",
     "៥", "៦", "៧", "៨", "៩", "᧐", "᧑", "᧒", "᧓", "᧔", "᧕", "᧖",
     "᧗", "᧘", "᧙", "᧚", "᪀", "᪁", "᪂", "᪃", "᪄", "᪅", "᪆", "᪇",
     "᪈", "᪉", "᪐", "᪑", "᪒", "᪓", "᪔", "᪕", "᪖", "᪗", "᪘", "᪙",
     "᮰", "᮱", "᮲", "᮳", "᮴", "᮵", "᮶", "᮷", "᮸", "᮹", "₀", "₁",
     "₂", "₃", "₄", "₅", "₆", "₇", "₈", "₉", "⒈", "⒉", "⒊", "⒋",
     "⒌", "⒍", "⒎", "⒏", "⒐", "⓪", "⓵", "⓶", "⓷", "⓸", "⓹", "⓺",
     "⓻", "⓼", "⓽", "⓿", "➀", "➁", "➂", "➃", "➄", "➅", "➆", "➇",
     "➈", "➊", "➋", "➌", "➍", "➎", "➏", "➐", "➑", "➒", "꣐", "꣑",
     "꣒", "꣓", "꣔", "꣕", "꣖", "꣗", "꣘", "꣙", "꧐", "꧑", "꧒", "꧓",
     "꧔", "꧕", "꧖", "꧗", "꧘", "꧙", "꧰", "꧱", "꧲", "꧳", "꧴", "꧵",
     "꧶", "꧷", "꧸", "꧹", "꯰", "꯱", "꯲", "꯳", "꯴", "꯵", "꯶", "꯷",
     "꯸", "꯹"}

DigitChars == <<"0", "1", "2", "3", "4", "5", "6", "7", "8", "9">>

\* the characters str.lower changes whatever stands around them and, at the
\* same position of LowerCase, what it makes of each
UpperCase ==
    <<"A", "B", "C", "D", "E", "F", "G", "H", "I", "J", "K", "L",
      "M", "N", "O", "P", "Q", "R", "S", "T", "U", "V", "W", "X",
      "Y", "Z", "À", "Á", "Â", "Ã", "Ä", "Å", "Æ", "Ç", "È", "É",
      "Ê", "Ë", "Ì", "Í", "Î", "Ï", "Ð", "Ñ", "Ò", "Ó", "Ô", "Õ",
      "Ö", "Ø", "Ù", "Ú", "Û", "Ü", "Ý", "Þ", "Ɓ", "Ƃ", "Ƅ", "Ɔ",
      "Ƈ", "Ɖ", "Ɗ", "Ƌ", "Ǝ", "Ə", "Ɛ", "Ƒ", "Ɠ", "Ɣ", "Ɩ", "Ɨ",
      "Ƙ", "Ɯ", "Ɲ", "Ɵ", "Ơ", "Ƣ", "Ƥ", "Ʀ", "Ƨ", "Ʃ", "Ƭ", "Ʈ",
      "Ư", "Ʊ", "Ʋ", "Ƴ", "Ƶ", "Ʒ", "Ƹ", "Ƽ", "Ǆ", "ǅ", "Ǉ", "ǈ",
      "Ǌ", "ǋ", "Ǎ", "Ǐ", "Ǒ", "Ǔ", "Ǖ", "Ǘ", "Ǚ", "Ǜ", "Ǟ", "Ǡ",
      "Ǣ", "Ǥ", "Ǧ", "Ǩ", "Ǫ", "Ǭ", "Ǯ", "Ǳ", "ǲ", "Ǵ", "Ƕ", "Ƿ",
      "Ǹ", "Ǻ", "Ǽ", "Ǿ", "Ά", "Έ", "Ή", "Ί", "Ό", "Ύ", "Ώ", "Α",
      "Β", "Γ", "Δ", "Ε", "Ζ", "Η", "Θ", "Ι", "Κ", "Λ", "Μ", "Ν",
      "Ξ", "Ο", "Π", "Ρ", "Τ", "Υ", "Φ", "Χ", "Ψ", "Ω", "Ϊ", "Ϋ",
      "Ϗ", "Ϙ", "Ϛ", "Ϝ", "Ϟ", "Ϡ", "Ϣ", "Ϥ", "Ϧ", "Ϩ", "Ϫ", "Ϭ",
      "Ϯ", "ϴ", "Ϸ", "Ϲ", "Ϻ", "Ͻ", "Ͼ", "Ͽ", "Ҁ", "Ҋ", "Ҍ", "Ҏ",
      "Ґ", "Ғ", "Ҕ", "Җ", "Ҙ", "Қ", "Ҝ", "Ҟ", "Ҡ", "Ң", "Ҥ", "Ҧ",
      "Ҩ", "Ҫ", "Ҭ", "Ү", "Ұ", "Ҳ", "Ҵ", "Ҷ", "Ҹ", "Һ", "Ҽ", "Ҿ",
      "Ӏ", "Ӂ", "Ӄ", "Ӆ", "Ӈ", "Ӊ", "Ӌ", "Ӎ", "Ӑ", "Ӓ", "Ӕ", "Ӗ",
      "Ә", "Ӛ", "Ӝ", "Ӟ", "Ӡ", "Ӣ", "Ӥ", "Ӧ", "Ө", "Ӫ", "Ӭ", "Ӯ",
      "Ӱ", "Ӳ", "Ӵ", "Ӷ", "Ӹ", "Ӻ", "Ӽ", "Ӿ", "Ⴀ", "Ⴁ", "Ⴂ", "Ⴃ",
      "Ⴄ", "Ⴅ", "Ⴆ", "Ⴇ", "Ⴈ", "Ⴉ", "Ⴊ", "Ⴋ", "Ⴌ", "Ⴍ", "Ⴎ", "Ⴏ",
      "Ⴐ", "Ⴑ", "Ⴒ", "Ⴓ", "Ⴔ", "Ⴕ", "Ⴖ", "Ⴗ", "Ⴘ", "Ⴙ", "Ⴚ", "Ⴛ",
      "Ⴜ", "Ⴝ", "Ⴞ", "Ⴟ", "Ⴠ", "Ⴡ", "Ⴢ", "Ⴣ", "Ⴤ", "Ⴥ", "Ⴧ", "Ⴭ",
      "Ꭰ", "Ꭱ", "Ꭲ", "Ꭳ", "Ꭴ", "Ꭵ", "Ꭶ", "Ꭷ", "Ꭸ", "Ꭹ", "Ꭺ", "Ꭻ",
      "Ꭼ", "Ꭽ", "Ꭾ", "Ꭿ", "Ꮀ", "Ꮁ", "Ꮂ", "Ꮃ", "Ꮄ", "Ꮅ", "Ꮆ", "Ꮇ",
      "Ꮈ", "Ꮉ", "Ꮊ", "Ꮋ", "Ꮌ", "Ꮍ", "Ꮎ", "Ꮏ", "Ꮐ", "Ꮑ", "Ꮒ", "Ꮓ",
      "Ꮔ", "Ꮕ", "Ꮖ", "Ꮗ", "Ꮘ", "Ꮙ", "Ꮚ", "Ꮛ", "Ꮜ", "Ꮝ", "Ꮞ", "Ꮟ",
      "Ꮠ", "Ꮡ", "Ꮢ", "Ꮣ", "Ꮤ", "Ꮥ", "Ꮦ", "Ꮧ", "Ꮨ", "Ꮩ", "Ꮪ", "Ꮫ",
      "Ꮬ", "Ꮭ", "Ꮮ", "Ꮯ", "Ꮰ", "Ꮱ", "Ꮲ", "Ꮳ", "Ꮴ", "Ꮵ", "Ꮶ", "Ꮷ",
      "Ꮸ", "Ꮹ", "Ꮺ", "Ꮻ", "Ꮼ", "Ꮽ", "Ꮾ", "Ꮿ", "Ᏸ", "Ᏹ", "Ᏺ", "Ᏻ",
      "Ᏼ", "Ᏽ", "Ა", "Ბ", "Გ", "Დ", "Ე", "Ვ", "Ზ", "Თ", "Ი", "Კ",
      "Ლ", "Მ", "Ნ", "Ო", "Პ", "Ჟ", "Რ", "Ს", "Ტ", "Უ", "Ფ", "Ქ",
      "Ღ", "Ყ", "Შ", "Ჩ", "Ც", "Ძ", "Წ", "Ჭ", "Ხ", "Ჯ", "Ჰ", "Ჱ",
      "Ჲ", "Ჳ", "Ჴ", "Ჵ", "Ჶ", "Ჷ", "Ჸ", "Ჹ", "Ჺ", "Ჽ", "Ჾ", "Ჿ",
      "Ẁ", "Ẃ", "Ẅ", "Ẇ", "Ẉ", "Ẋ", "Ẍ", "Ẏ", "Ẑ", "Ẓ", "Ẕ", "ẞ",
      "Ạ", "Ả", "Ấ", "Ầ", "Ẩ", "Ẫ", "Ậ", "Ắ", "Ằ", "Ẳ", "Ẵ", "Ặ",
      "Ẹ", "Ẻ", "Ẽ", "Ế", "Ề", "Ể", "Ễ", "Ệ", "Ỉ", "Ị", "Ọ", "Ỏ",
      "Ố", "Ồ", "Ổ", "Ỗ", "Ộ", "Ớ", "Ờ", "Ở", "Ỡ", "Ợ", "Ụ", "Ủ",
      "Ứ", "Ừ", "Ử", "Ữ", "Ự", "Ỳ", "Ỵ", "Ỷ", "Ỹ", "Ỻ", "Ỽ", "Ỿ",
      "ᾈ", "ᾉ", "ᾊ", "ᾋ", "ᾌ", "ᾍ", "ᾎ", "ᾏ", "ᾘ", "ᾙ", "ᾚ", "ᾛ",
      "ᾜ", "ᾝ", "ᾞ", "ᾟ", "ᾨ", "ᾩ", "ᾪ", "ᾫ", "ᾬ", "ᾭ", "ᾮ", "ᾯ",
      "Ᾰ", "Ᾱ", "Ὰ", "Ά", "ᾼ", "Ὲ", "Έ", "Ὴ", "Ή", "ῌ", "Ῐ", "Ῑ",
      "Ὶ", "Ί", "Ῠ", "Ῡ", "Ὺ", "Ύ", "Ῥ", "Ὸ", "Ό", "Ὼ", "Ώ", "ῼ",
      "Ↄ", "Ⓐ", "Ⓑ", "Ⓒ", "Ⓓ", "Ⓔ", "Ⓕ", "Ⓖ", "Ⓗ", "Ⓘ", "Ⓙ", "Ⓚ",
      "Ⓛ", "Ⓜ", "Ⓝ", "Ⓞ", "Ⓟ", "Ⓠ", "Ⓡ", "Ⓢ", "Ⓣ", "Ⓤ", "Ⓥ", "Ⓦ",
      "Ⓧ", "Ⓨ", "Ⓩ", "Ⲁ", "Ⲃ", "Ⲅ", "Ⲇ", "Ⲉ", "Ⲋ", "Ⲍ", "Ⲏ", "Ⲑ",
      "Ⲓ", "Ⲕ", "Ⲗ", "Ⲙ", "Ⲛ", "Ⲝ", "Ⲟ", "Ⲡ", "Ⲣ", "Ⲥ", "Ⲧ", "Ⲩ",
      "Ⲫ", "Ⲭ", "Ⲯ", "Ⲱ", "Ⲳ", "Ⲵ", "Ⲷ", "Ⲹ", "Ⲻ", "Ⲽ", "Ⲿ", "Ⳁ",
      "Ⳃ", "Ⳅ", "Ⳇ", "Ⳉ", "Ⳋ", "Ⳍ", "Ⳏ", "Ⳑ", "Ⳓ", "Ⳕ", "Ⳗ", "Ⳙ",
      "Ⳛ", "Ⳝ", "Ⳟ", "Ⳡ", "Ⳣ", "Ⳬ", "Ⳮ", "Ⳳ", "Ꚁ", "Ꚃ", "Ꚅ", "Ꚇ",
      "Ꚉ", "Ꚋ", "Ꚍ", "Ꚏ", "Ꚑ", "Ꚓ", "Ꚕ", "Ꚗ", "Ꚙ", "Ꚛ", "Ꞁ", "Ꞃ",
      "Ꞅ", "Ꞇ", "Ꞌ", "Ɥ", "Ꞑ", "Ꞓ", "Ꞗ", "Ꞙ", "Ꞛ", "Ꞝ", "Ꞟ", "Ꞡ",
      "Ꞣ", "Ꞥ", "Ꞧ", "Ꞩ", "Ɦ", "Ɜ", "Ɡ", "Ɬ", "Ɪ", "Ʞ", "Ʇ", "Ʝ",
      "Ꭓ", "Ꞵ", "Ꞷ", "Ꞹ", "Ꞻ", "Ꞽ", "Ꞿ", "Ꟁ", "Ꟃ", "Ꞔ", "Ʂ", "Ᶎ",
      "Ꟈ", "Ꟊ", "Ꟑ", "Ꟗ", "Ꟙ", "Ꟶ">>

LowerCase ==
    <<"a", "b", "c", "d", "e", "f", "g", "h", "i", "j", "k", "l",
      "m", "n", "o", "p", "q", "r", "s", "t", "u", "v", "w", "x",
      "y", "z", "à", "á", "â", "ã", "ä", "å", "æ", "ç", "è", "é",
      "ê", "ë", "ì", "í", "î", "ï", "ð", "ñ", "ò", "ó", "ô", "õ",
      "ö", "ø", "ù", "ú", "û", "ü", "ý", "þ", "\\u0253", "ƃ", "ƅ", "\\u0254",
      "ƈ", "\\u0256", "\\u0257", "ƌ", "ǝ", "\\u0259", "\\u025B", "ƒ", "\\u0260", "\\u0263", "\\u0269", "\\u0268",
      "ƙ", "\\u026F", "\\u0272", "\\u0275", "ơ", "ƣ", "ƥ", "ʀ", "ƨ", "ʃ", "ƭ", "ʈ",
      "ư", "ʊ", "ʋ", "ƴ", "ƶ", "ʒ", "ƹ", "ƽ", "ǆ", "ǆ", "ǉ", "ǉ",
      "ǌ", "ǌ", "ǎ", "ǐ", "ǒ", "ǔ", "ǖ", "ǘ", "ǚ", "ǜ", "ǟ", "ǡ",
      "ǣ", "ǥ", "ǧ", "ǩ", "ǫ", "ǭ", "ǯ", "ǳ", "ǳ", "ǵ", "ƕ", "ƿ",
      "ǹ", "ǻ", "ǽ", "ǿ", "ά", "έ", "ή", "ί", "ό", "ύ", "ώ", "α",
      "β", "γ", "δ", "ε", "ζ", "η", "θ", "ι", "κ", "λ", "μ", "ν",
      "ξ", "ο", "π", "ρ", "τ", "υ", "φ", "χ", "ψ", "ω", "ϊ", "ϋ",
      "ϗ", "ϙ", "ϛ", "ϝ", "ϟ", "ϡ", "ϣ", "ϥ", "ϧ", "ϩ", "ϫ", "ϭ",
      "ϯ", "θ", "ϸ", "ϲ", "ϻ", "\\u037B", "\\u037C", "\\u037D", "ҁ", "ҋ", "ҍ", "ҏ",
      "ґ", "ғ", "ҕ", "җ", "ҙ", "қ", "ҝ", "ҟ", "ҡ", "ң", "ҥ", "ҧ",
      "ҩ", "ҫ", "ҭ", "ү", "ұ", "ҳ", "ҵ", "ҷ", "ҹ", "һ", "ҽ", "ҿ",
      "ӏ", "ӂ", "ӄ", "ӆ", "ӈ", "ӊ", "ӌ", "ӎ", "ӑ", "ӓ", "ӕ", "ӗ",
      "ә", "ӛ", "ӝ", "ӟ", "ӡ", "ӣ", "ӥ", "ӧ", "ө", "ӫ", "ӭ", "ӯ",
      "ӱ", "ӳ", "ӵ", "ӷ", "ӹ", "ӻ", "ӽ", "ӿ", "\\u2D00", "\\u2D01", "\\u2D02", "\\u2D03",
      "\\u2D04", "\\u2D05", "\\u2D06", "\\u2D07", "\\u2D08", "\\u2D09", "\\u2D0A", "\\u2D0B", "\\u2D0C", "\\u2D0D", "\\u2D0E", "\\u2D0F",
      "\\u2D10", "\\u2D11", "\\u2D12", "\\u2D13", "\\u2D14", "\\u2D15", "\\u2D16", "\\u2D17", "\\u2D18", "\\u2D19", "\\u2D1A", "\\u2D1B",
      "\\u2D1C", "\\u2D1D", "\\u2D1E", "\\u2D1F", "\\u2D20", "\\u2D21", "\\u2D22", "\\u2D23", "\\u2D24", "\\u2D25", "\\u2D27", "\\u2D2D",
      "\\uAB70", "\\uAB71", "\\uAB72", "\\uAB73", "\\uAB74", "\\uAB75", "\\uAB76", "\\uAB77", "\\uAB78", "\\uAB79", "\\uAB7A", "\\uAB7B",
      "\\uAB7C", "\\uAB7D", "\\uAB7E", "\\uAB7F", "ꮀ", "ꮁ", "ꮂ", "ꮃ", "ꮄ", "ꮅ", "ꮆ", "ꮇ",
      "ꮈ", "ꮉ", "ꮊ", "ꮋ", "ꮌ", "ꮍ", "ꮎ", "ꮏ", "ꮐ", "ꮑ", "ꮒ", "ꮓ",
      "ꮔ", "ꮕ", "ꮖ", "ꮗ", "ꮘ", "ꮙ", "ꮚ", "ꮛ", "ꮜ", "ꮝ", "ꮞ", "ꮟ",
      "ꮠ", "ꮡ", "ꮢ", "ꮣ", "ꮤ", "ꮥ", "ꮦ", "ꮧ", "ꮨ", "ꮩ", "ꮪ", "ꮫ",
      "ꮬ", "ꮭ", "ꮮ", "ꮯ", "ꮰ", "ꮱ", "ꮲ", "ꮳ", "ꮴ", "ꮵ", "ꮶ", "ꮷ",
      "ꮸ", "ꮹ", "ꮺ", "ꮻ", "ꮼ", "ꮽ", "ꮾ", "ꮿ", "ᏸ", "ᏹ", "ᏺ", "ᏻ",
      "ᏼ", "ᏽ", "ა", "ბ", "გ", "დ", "ე", "ვ", "ზ", "თ", "ი", "კ",
      "ლ", "მ", "ნ", "ო", "პ", "ჟ", "რ", "ს", "ტ", "უ", "ფ", "ქ",
      "ღ", "ყ", "შ", "ჩ", "ც", "ძ", "წ", "ჭ", "ხ", "ჯ", "ჰ", "ჱ",
      "ჲ", "ჳ", "ჴ", "ჵ", "ჶ", "ჷ", "ჸ", "ჹ", "ჺ", "ჽ", "ჾ", "ჿ",
      "ẁ", "ẃ", "ẅ", "ẇ", "ẉ", "ẋ", "ẍ", "ẏ", "ẑ", "ẓ", "ẕ", "ß",
      "ạ", "ả", "ấ", "ầ", "ẩ", "ẫ", "ậ", "ắ", "ằ", "ẳ", "ẵ", "ặ",
      "ẹ", "ẻ", "ẽ", "ế", "ề", "ể", "ễ", "ệ", "ỉ", "ị", "ọ", "ỏ",
      "ố", "ồ", "ổ", "ỗ", "ộ", "ớ", "ờ", "ở", "ỡ", "ợ", "ụ", "ủ",
      "ứ", "ừ", "ử", "ữ", "ự", "ỳ", "ỵ", "ỷ", "ỹ", "ỻ", "ỽ", "ỿ",
      "ᾀ", "ᾁ", "ᾂ", "ᾃ", "ᾄ", "ᾅ", "ᾆ", "ᾇ", "ᾐ", "ᾑ", "ᾒ", "ᾓ",
      "ᾔ", "ᾕ", "ᾖ", "ᾗ", "ᾠ", "ᾡ", "ᾢ", "ᾣ", "ᾤ", "ᾥ", "ᾦ", "ᾧ",
      "ᾰ", "ᾱ", "\\u1F70", "\\u1F71", "ᾳ", "\\u1F72", "\\u1F73", "\\u1F74", "\\u1F75", "ῃ", "ῐ", "ῑ",
      "\\u1F76", "\\u1F77", "ῠ", "ῡ", "\\u1F7A", "\\u1F7B", "ῥ", "\\u1F78", "\\u1F79", "\\u1F7C", "\\u1F7D", "ῳ",
      "ↄ", "ⓐ", "ⓑ", "ⓒ", "ⓓ", "ⓔ", "ⓕ", "ⓖ", "ⓗ", "ⓘ", "ⓙ", "ⓚ",
      "ⓛ", "ⓜ", "ⓝ", "ⓞ", "ⓟ", "ⓠ", "ⓡ", "ⓢ", "ⓣ", "ⓤ", "ⓥ", "ⓦ",
      "ⓧ", "ⓨ", "ⓩ", "ⲁ", "ⲃ", "ⲅ", "ⲇ", "ⲉ", "ⲋ", "ⲍ", "ⲏ", "ⲑ",
      "ⲓ", "ⲕ", "ⲗ", "ⲙ", "ⲛ", "ⲝ", "ⲟ", "ⲡ", "ⲣ", "ⲥ", "ⲧ", "ⲩ",
      "ⲫ", "ⲭ", "ⲯ", "ⲱ", "ⲳ", "ⲵ", "ⲷ", "ⲹ", "ⲻ", "ⲽ", "ⲿ", "ⳁ",
      "ⳃ", "ⳅ", "ⳇ", "ⳉ", "ⳋ", "ⳍ", "ⳏ", "ⳑ", "ⳓ", "ⳕ", "ⳗ", "ⳙ",
      "ⳛ", "ⳝ", "ⳟ", "ⳡ", "ⳣ", "ⳬ", "ⳮ", "ⳳ", "ꚁ", "ꚃ", "ꚅ", "ꚇ",
      "ꚉ", "ꚋ", "ꚍ", "ꚏ", "ꚑ", "ꚓ", "ꚕ", "ꚗ", "ꚙ", "ꚛ", "ꞁ", "ꞃ",
      "ꞅ", "ꞇ", "ꞌ", "\\u0265", "ꞑ", "ꞓ", "ꞗ", "ꞙ", "ꞛ", "ꞝ", "ꞟ", "ꞡ",
      "ꞣ", "ꞥ", "ꞧ", "ꞩ", "\\u0266", "\\u025C", "\\u0261", "\\u026C", "\\u026A", "ʞ", "ʇ", "ʝ",
      "\\uAB53", "ꞵ", "ꞷ", "ꞹ", "ꞻ", "ꞽ", "ꞿ", "ꟁ", "ꟃ", "ꞔ", "ʂ", "ᶎ",
      "ꟈ", "ꟊ", "ꟑ", "ꟗ", "ꟙ", "ꟶ">>

\* str.lower of a character of UpperCase
ToLower ==
    [c \in {UpperCase[k] : k \in 1..Len(UpperCase)} |->
        LowerCase[CHOOSE k \in 1..Len(UpperCase) : UpperCase[k] = c]]

\* the characters str.lower skips when it looks for the letters around a
\* capital sigma (the case-ignorable characters)
CaseIgnorable ==
    {"'", ".", ":", "^", "¨", "­", "¯", "´", "·", "¸", "ʰ", "ʱ",
     "ʲ", "ʳ", "ʴ", "ʵ", "ʶ", "ʷ", "ʸ", "ʹ", "ʺ", "ʻ", "ʼ", "ʽ",
     "ʾ", "ʿ", "ˀ", "ˁ", "˂", "˃", "˄", "˅", "ˆ", "ˇ", "ˈ", "ˉ",
     "ˊ", "ˋ", "ˌ", "ˍ", "ˎ", "ˏ", "ː", "ˑ", "˒", "˓", "˔", "˕",
     "˖", "˗", "˘", "˙", "˚", "˛", "˜", "˝", "˞", "˟", "ˠ", "ˡ",
     "ˢ", "ˣ", "ˤ", "˥", "˦", "˧", "˨", "˩", "˪", "˫", "ˬ", "˭",
     "ˮ", "˯", "˰", "˱", "˲", "˳", "˴", "˵", "˶", "˷", "˸", "˹",
     "˺", "˻", "˼", "˽", "˾", "˿", "΄", "΅", "·", "҃", "҄", "҅",
     "҆", "҇", "҈", "҉", "֑", "֒", "֓", "֔", "֕", "֖", "֗", "֘",
     "֙", "֚", "֛", "֜", "֝", "֞", "֟", "֠", "֡", "֢", "֣", "֤",
     "֥", "֦", "֧", "֨", "֩", "֪", "֫", "֬", "֭", "֮", "֯", "ְ",
     "ֱ", "ֲ", "ֳ", "ִ", "ֵ", "ֶ", "ַ", "ָ", "ֹ", "ֺ", "ֻ", "ּ",
     "ֽ", "ֿ", "ׁ", "ׂ", "ׄ", "ׅ", "ׇ", "״", "ۖ", "ۗ", "ۘ", "ۙ",
     "ۚ", "ۛ", "ۜ", "۝", "۟", "۠", "ۡ", "ۢ", "ۣ", "ۤ", "ۥ", "ۦ",
     "ۧ", "ۨ", "۪", "۫", "۬", "ۭ", "ަ", "ާ", "ި", "ީ", "ު", "ޫ",
     "ެ", "ޭ", "ޮ", "ޯ", "ް", "߫", "߬", "߭", "߮", "߯", "߰", "߱",
     "߲", "߳", "ߴ", "ߵ", "ߺ", "߽", "࢈", "࢐", "࢑", "࢘", "࢙", "࢚",
     "࢛", "࢜", "࢝", "࢞", "࢟", "ࣉ", "࣊", "࣋", "࣌", "࣍", "࣎", "࣏",
     "࣐", "࣑", "࣒", "࣓", "ࣔ", "ࣕ", "ࣖ", "ࣗ", "ࣘ", "ࣙ", "ࣚ", "ࣛ",
     "ࣜ", "ࣝ", "ࣞ", "ࣟ", "࣠", "࣡", "࣢", "ࣣ", "ࣤ", "ࣥ", "ࣦ", "ࣧ",
     "ࣨ", "ࣩ", "࣪", "࣫", "࣬", "࣭", "࣮", "࣯", "ࣰ", "ࣱ", "ࣲ", "ࣳ",
     "ࣴ", "ࣵ", "ࣶ", "ࣷ", "ࣸ", "ࣹ", "ࣺ", "ࣻ", "ࣼ", "ࣽ", "ࣾ", "ࣿ",
     "ঁ", "়", "ু", "ূ", "ৃ", "ৄ", "্", "ৢ", "ৣ", "৾", "ઁ", "ં",
     "઼", "ુ", "ૂ", "ૃ", "ૄ", "ૅ", "ે", "ૈ", "્", "ૢ", "ૣ", "ૺ",
     "ૻ", "ૼ", "૽", "૾", "૿", "ஂ", "ீ", "்", "ಁ", "಼", "ಿ", "ೆ",
     "ೌ", "್", "ೢ", "ೣ", "ඁ", "්", "ි", "ී", "ු", "ූ", "ັ", "ິ",
     "ີ", "ຶ", "ື", "ຸ", "ູ", "຺", "ົ", "ຼ", "ໆ", "່", "້", "໊",
     "໋", "໌", "ໍ", "ྀ", "ཱྀ", "ྂ", "ྃ", "྄", "྆", "྇", "ྍ", "ྎ",
     "ྏ", "ྐ", "ྑ", "ྒ", "ྒྷ", "ྔ", "ྕ", "ྖ", "ྗ", "ྙ", "ྚ", "ྛ",
     "ྜ", "ྜྷ", "ྞ", "ྟ", "ྠ", "ྡ", "ྡྷ", "ྣ", "ྤ", "ྥ", "ྦ", "ྦྷ",
     "ྨ", "ྩ", "ྪ", "ྫ", "ྫྷ", "ྭ", "ྮ", "ྯ", "ྰ", "ྱ", "ྲ", "ླ",
     "ྴ", "ྵ", "ྶ", "ྷ", "ྸ", "ྐྵ", "ྺ", "ྻ", "ྼ", "࿆", "ႂ", "ႅ",
     "ႆ", "ႍ", "ႝ", "ჼ", "឴", "឵", "ិ", "ី", "ឹ", "ឺ", "ុ", "ូ",
     "ួ", "ំ", "៉", "៊", "់", "៌", "៍", "៎", "៏", "័", "៑", "្",
     "៓", "ៗ", "៝", "ᢅ", "ᢆ", "ᢩ", "ᪧ", "᪰", "᪱", "᪲", "᪳", "᪴",
     "᪵", "᪶", "᪷", "᪸", "᪹", "᪺", "᪻", "᪼", "᪽", "᪾", "ᪿ", "ᫀ",
     "᫁", "᫂", "᫃", "᫄", "᫅", "᫆", "᫇", "᫈", "᫉", "᫊", "᫋", "ᫌ",
     "ᫍ", "ᫎ", "ᮀ", "ᮁ", "ᮢ", "ᮣ", "ᮤ", "ᮥ", "ᮨ", "ᮩ", "᮫", "ᮬ",
     "ᮭ", "᯦", "ᯨ", "ᯩ", "ᯭ", "ᯯ", "ᯰ", "ᯱ", "᳐", "᳑", "᳒", "᳔",
     "᳕", "᳖", "᳗", "᳘", "᳙", "᳚", "᳛", "᳜", "᳝", "᳞", "᳟", "᳠",
     "᳢", "᳣", "᳤", "᳥", "᳦", "᳧", "᳨", "᳭", "᳴", "᳸", "᳹", "ᶛ",
     "ᶜ", "ᶝ", "ᶞ", "ᶟ", "ᶠ", "ᶡ", "ᶢ", "ᶣ", "ᶤ", "ᶥ", "ᶦ", "ᶧ",
     "ᶨ", "ᶩ", "ᶪ", "ᶫ", "ᶬ", "ᶭ", "ᶮ", "ᶯ", "ᶰ", "ᶱ", "ᶲ", "ᶳ",
     "ᶴ", "ᶵ", "ᶶ", "ᶷ", "ᶸ", "ᶹ", "ᶺ", "ᶻ", "ᶼ", "ᶽ", "ᶾ", "ᶿ",
     "᷀", "᷁", "᷂", "᷃", "᷄", "᷅", "᷆", "᷇", "᷈", "᷉", "᷊", "᷋",
     "᷌", "᷍", "᷎", "᷏", "᷐", "᷑", "᷒", "ᷓ", "ᷔ", "ᷕ", "ᷖ", "ᷗ",
     "ᷘ", "ᷙ", "ᷚ", "ᷛ", "ᷜ", "ᷝ", "ᷞ", "ᷟ", "ᷠ", "ᷡ", "ᷢ", "ᷣ",
     "ᷤ", "ᷥ", "ᷦ", "ᷧ", "ᷨ", "ᷩ", "ᷪ", "ᷫ", "ᷬ", "ᷭ", "ᷮ", "ᷯ",
     "ᷰ", "ᷱ", "ᷲ", "ᷳ", "ᷴ", "᷵", "᷶", "᷷", "᷸", "᷹", "᷺", "᷻",
     "᷼", "᷽", "᷾", "᷿", "᾽", "᾿", "῀", "῁", "῍", "῎", "῏", "῝",
     "῞", "῟", "῭", "΅", "`", "´", "῾", "ₐ", "ₑ", "ₒ", "ₓ", "ₔ",
     "ₕ", "ₖ", "ₗ", "ₘ", "ₙ", "ₚ", "ₛ", "ₜ", "⃐", "⃑", "⃒", "⃓",
     "⃔", "⃕", "⃖", "⃗", "⃘", "⃙", "⃚", "⃛", "⃜", "⃝", "⃞", "⃟",
     "⃠", "⃡", "⃢", "⃣", "⃤", "⃥", "⃦", "⃧", "⃨", "⃩", "⃪", "⃫",
     "⃬", "⃭", "⃮", "⃯", "⃰", "⳯", "⳰", "⳱", "ⷠ", "ⷡ", "ⷢ", "ⷣ",
     "ⷤ", "ⷥ", "ⷦ", "ⷧ", "ⷨ", "ⷩ", "ⷪ", "ⷫ", "ⷬ", "ⷭ", "ⷮ", "ⷯ",
     "ⷰ", "ⷱ", "ⷲ", "ⷳ", "ⷴ", "ⷵ", "ⷶ", "ⷷ", "ⷸ", "ⷹ", "ⷺ", "ⷻ",
     "ⷼ", "ⷽ", "ⷾ", "ⷿ", "゙", "゚", "゛", "゜", "ゝ", "ゞ", "ー", "ヽ",
     "ヾ", "ꓸ", "ꓹ", "ꓺ", "ꓻ", "ꓼ", "ꓽ", "ꚜ", "ꚝ", "ꚞ", "ꚟ", "꛰",
     "꛱", "ꞈ", "꞉", "꞊", "ꟲ", "ꟳ", "ꟴ", "ꟸ", "ꟹ", "꣄", "ꣅ", "꣠",
     "꣡", "꣢", "꣣", "꣤", "꣥", "꣦", "꣧", "꣨", "꣩", "꣪", "꣫", "꣬",
     "꣭", "꣮", "꣯", "꣰", "꣱", "ꣿ", "ꦀ", "ꦁ", "ꦂ", "꦳", "ꦶ", "ꦷ",
     "ꦸ", "ꦹ", "ꦼ", "ꦽ", "ꧏ", "ꧥ", "ꧦ", "ꪰ", "ꪲ", "ꪳ", "ꪴ", "ꪷ",
     "ꪸ", "ꪾ", "꪿", "꫁", "ꫝ", "ꫬ", "ꫭ", "ꫳ", "ꫴ", "꫶", "ꯥ", "ꯨ",
     "꯭", "﮲", "﮳", "﮴", "﮵", "﮶", "﮷", "﮸", "﮹", "﮺", "﮻", "﮼",
     "﮽", "﮾", "﮿", "﯀", "﯁", "﯂", "﻿", "ﾞ", "ﾟ", "￣", "￹", "￺",
     "￻"}

\* the cased characters that are not case-ignorable
Cased ==
    {"A", "B", "C", "D", "E", "F", "G", "H", "I", "J", "K", "L",
     "M", "N", "O", "P", "Q", "R", "S", "T", "U", "V", "W", "X",
     "Y", "Z", "a", "b", "c", "d", "e", "f", "g", "h", "i", "j",
     "k", "l", "m", "n", "o", "p", "q", "r", "s", "t", "u", "v",
     "w", "x", "y", "z", "ª", "µ", "º", "À", "Á", "Â", "Ã", "Ä",
     "Å", "Æ", "Ç", "È", "É", "Ê", "Ë", "Ì", "Í", "Î", "Ï", "Ð",
     "Ñ", "Ò", "Ó", "Ô", "Õ", "Ö", "Ø", "Ù", "Ú", "Û", "Ü", "Ý",
     "Þ", "ß", "à", "á", "â", "ã", "ä", "å", "æ", "ç", "è", "é",
     "ê", "ë", "ì", "í", "î", "ï", "ð", "ñ", "ò", "ó", "ô", "õ",
     "ö", "ø", "ù", "ú", "û", "ü", "ý", "þ", "ÿ", "ƀ", "Ɓ", "Ƃ",
     "ƃ", "Ƅ", "ƅ", "Ɔ", "Ƈ", "ƈ", "Ɖ", "Ɗ", "Ƌ", "ƌ", "ƍ", "Ǝ",
     "Ə", "Ɛ", "Ƒ", "ƒ", "Ɠ", "Ɣ", "ƕ", "Ɩ", "Ɨ", "Ƙ", "ƙ", "ƚ",
     "ƛ", "Ɯ", "Ɲ", "ƞ", "Ɵ", "Ơ", "ơ", "Ƣ", "ƣ", "Ƥ", "ƥ", "Ʀ",
     "Ƨ", "ƨ", "Ʃ", "ƪ", "ƫ", "Ƭ", "ƭ", "Ʈ", "Ư", "ư", "Ʊ", "Ʋ",
     "Ƴ", "ƴ", "Ƶ", "ƶ", "Ʒ", "Ƹ", "ƹ", "ƺ", "Ƽ", "ƽ", "ƾ", "ƿ",
     "Ǆ", "ǅ", "ǆ", "Ǉ", "ǈ", "ǉ", "Ǌ", "ǋ", "ǌ", "Ǎ", "ǎ", "Ǐ",
     "ǐ", "Ǒ", "ǒ", "Ǔ", "ǔ", "Ǖ", "ǖ", "Ǘ", "ǘ", "Ǚ", "ǚ", "Ǜ",
     "ǜ", "ǝ", "Ǟ", "ǟ", "Ǡ", "ǡ", "Ǣ", "ǣ", "Ǥ", "ǥ", "Ǧ", "ǧ",
     "Ǩ", "ǩ", "Ǫ", "ǫ", "Ǭ", "ǭ", "Ǯ", "ǯ", "ǰ", "Ǳ", "ǲ", "ǳ",
     "Ǵ", "ǵ", "Ƕ", "Ƿ", "Ǹ", "ǹ", "Ǻ", "ǻ", "Ǽ", "ǽ", "Ǿ", "ǿ",
     "\\u0253", "\\u0254", "\\u0256", "\\u0257", "\\u0259", "\\u025B", "\\u025C", "\\u0260", "\\u0261", "\\u0263", "\\u0265", "\\u0266",
     "\\u0268", "\\u0269", "\\u026A", "\\u026C", "\\u026F", "\\u0272", "\\u0275", "ʀ", "ʁ", "ʂ", "ʃ", "ʄ",
     "ʅ", "ʆ", "ʇ", "ʈ", "ʉ", "ʊ", "ʋ", "ʌ", "ʍ", "ʎ", "ʏ", "ʐ",
     "ʑ", "ʒ", "ʓ", "ʕ", "ʖ", "ʗ", "ʘ", "ʙ", "ʚ", "ʛ", "ʜ", "ʝ",
     "ʞ", "ʟ", "ʠ", "ʡ", "ʢ", "ʣ", "ʤ", "ʥ", "ʦ", "ʧ", "ʨ", "ʩ",
     "ʪ", "ʫ", "ʬ", "ʭ", "ʮ", "ʯ", "\\u037B", "\\u037C", "\\u037D", "Ά", "Έ", "Ή",
     "Ί", "Ό", "Ύ", "Ώ", "ΐ", "Α", "Β", "Γ", "Δ", "Ε", "Ζ", "Η",
     "Θ", "Ι", "Κ", "Λ", "Μ", "Ν", "Ξ", "Ο", "Π", "Ρ", "Σ", "Τ",
     "Υ", "Φ", "Χ", "Ψ", "Ω", "Ϊ", "Ϋ", "ά", "έ", "ή", "ί", "ΰ",
     "α", "β", "γ", "δ", "ε", "ζ", "η", "θ", "ι", "κ", "λ", "μ",
     "ν", "ξ", "ο", "π", "ρ", "ς", "σ", "τ", "υ", "φ", "χ", "ψ",
     "ω", "ϊ", "ϋ", "ό", "ύ", "ώ", "Ϗ", "ϐ", "ϑ", "ϒ", "ϓ", "ϔ",
     "ϕ", "ϖ", "ϗ", "Ϙ", "ϙ", "Ϛ", "ϛ", "Ϝ", "ϝ", "Ϟ", "ϟ", "Ϡ",
     "ϡ", "Ϣ", "ϣ", "Ϥ", "ϥ", "Ϧ", "ϧ", "Ϩ", "ϩ", "Ϫ", "ϫ", "Ϭ",
     "ϭ", "Ϯ", "ϯ", "ϰ", "ϱ", "ϲ", "ϳ", "ϴ", "ϵ", "Ϸ", "ϸ", "Ϲ",
     "Ϻ", "ϻ", "ϼ", "Ͻ", "Ͼ", "Ͽ", "Ҁ", "ҁ", "Ҋ", "ҋ", "Ҍ", "ҍ",
     "Ҏ", "ҏ", "Ґ", "ґ", "Ғ", "ғ", "Ҕ", "ҕ", "Җ", "җ", "Ҙ", "ҙ",
     "Қ", "қ", "Ҝ", "ҝ", "Ҟ", "ҟ", "Ҡ", "ҡ", "Ң", "ң", "Ҥ", "ҥ",
     "Ҧ", "ҧ", "Ҩ", "ҩ", "Ҫ", "ҫ", "Ҭ", "ҭ", "Ү", "ү", "Ұ", "ұ",
     "Ҳ", "ҳ", "Ҵ", "ҵ", "Ҷ", "ҷ", "Ҹ", "ҹ", "Һ", "һ", "Ҽ", "ҽ",
     "Ҿ", "ҿ", "Ӏ", "Ӂ", "ӂ", "Ӄ", "ӄ", "Ӆ", "ӆ", "Ӈ", "ӈ", "Ӊ",
     "ӊ", "Ӌ", "ӌ", "Ӎ", "ӎ", "ӏ", "Ӑ", "ӑ", "Ӓ", "ӓ", "Ӕ", "ӕ",
     "Ӗ", "ӗ", "Ә", "ә", "Ӛ", "ӛ", "Ӝ", "ӝ", "Ӟ", "ӟ", "Ӡ", "ӡ",
     "Ӣ", "ӣ", "Ӥ", "ӥ", "Ӧ", "ӧ", "Ө", "ө", "Ӫ", "ӫ", "Ӭ", "ӭ",
     "Ӯ", "ӯ", "Ӱ", "ӱ", "Ӳ", "ӳ", "Ӵ", "ӵ", "Ӷ", "ӷ", "Ӹ", "ӹ",
     "Ӻ", "ӻ", "Ӽ", "ӽ", "Ӿ", "ӿ", "ր", "ց", "ւ", "փ", "ք", "օ",
     "ֆ", "և", "ֈ", "Ⴀ", "Ⴁ", "Ⴂ", "Ⴃ", "Ⴄ", "Ⴅ", "Ⴆ", "Ⴇ", "Ⴈ",
     "Ⴉ", "Ⴊ", "Ⴋ", "Ⴌ", "Ⴍ", "Ⴎ", "Ⴏ", "Ⴐ", "Ⴑ", "Ⴒ", "Ⴓ", "Ⴔ",
     "Ⴕ", "Ⴖ", "Ⴗ", "Ⴘ", "Ⴙ", "Ⴚ", "Ⴛ", "Ⴜ", "Ⴝ", "Ⴞ", "Ⴟ", "Ⴠ",
     "Ⴡ", "Ⴢ", "Ⴣ", "Ⴤ", "Ⴥ", "Ⴧ", "Ⴭ", "ა", "ბ", "გ", "დ", "ე",
     "ვ", "ზ", "თ", "ი", "კ", "ლ", "მ", "ნ", "ო", "პ", "ჟ", "რ",
     "ს", "ტ", "უ", "ფ", "ქ", "ღ", "ყ", "შ", "ჩ", "ც", "ძ", "წ",
     "ჭ", "ხ", "ჯ", "ჰ", "ჱ", "ჲ", "ჳ", "ჴ", "ჵ", "ჶ", "ჷ", "ჸ",
     "ჹ", "ჺ", "ჽ", "ჾ", "ჿ", "Ꭰ", "Ꭱ", "Ꭲ", "Ꭳ", "Ꭴ", "Ꭵ", "Ꭶ",
     "Ꭷ", "Ꭸ", "Ꭹ", "Ꭺ", "Ꭻ", "Ꭼ", "Ꭽ", "Ꭾ", "Ꭿ", "Ꮀ", "Ꮁ", "Ꮂ",
     "Ꮃ", "Ꮄ", "Ꮅ", "Ꮆ", "Ꮇ", "Ꮈ", "Ꮉ", "Ꮊ", "Ꮋ", "Ꮌ", "Ꮍ", "Ꮎ",
     "Ꮏ", "Ꮐ", "Ꮑ", "Ꮒ", "Ꮓ", "Ꮔ", "Ꮕ", "Ꮖ", "Ꮗ", "Ꮘ", "Ꮙ", "Ꮚ",
     "Ꮛ", "Ꮜ", "Ꮝ", "Ꮞ", "Ꮟ", "Ꮠ", "Ꮡ", "Ꮢ", "Ꮣ", "Ꮤ", "Ꮥ", "Ꮦ",
     "Ꮧ", "Ꮨ", "Ꮩ", "Ꮪ", "Ꮫ", "Ꮬ", "Ꮭ", "Ꮮ", "Ꮯ", "Ꮰ", "Ꮱ", "Ꮲ",
     "Ꮳ", "Ꮴ", "Ꮵ", "Ꮶ", "Ꮷ", "Ꮸ", "Ꮹ", "Ꮺ", "Ꮻ", "Ꮼ", "Ꮽ", "Ꮾ",
     "Ꮿ", "Ᏸ", "Ᏹ", "Ᏺ", "Ᏻ", "Ᏼ", "Ᏽ", "ᏸ", "ᏹ", "ᏺ", "ᏻ", "ᏼ",
     "ᏽ", "ᲀ", "ᲁ", "ᲂ", "ᲃ", "ᲄ", "ᲅ", "ᲆ", "ᲇ", "ᲈ", "Ა", "Ბ",
     "Გ", "Დ", "Ე", "Ვ", "Ზ", "Თ", "Ი", "Კ", "Ლ", "Მ", "Ნ", "Ო",
     "Პ", "Ჟ", "Რ", "Ს", "Ტ", "Უ", "Ფ", "Ქ", "Ღ", "Ყ", "Შ", "Ჩ",
     "Ც", "Ძ", "Წ", "Ჭ", "Ხ", "Ჯ", "Ჰ", "Ჱ", "Ჲ", "Ჳ", "Ჴ", "Ჵ",
     "Ჶ", "Ჷ", "Ჸ", "Ჹ", "Ჺ", "Ჽ", "Ჾ", "Ჿ", "ᶀ", "ᶁ", "ᶂ", "ᶃ",
     "ᶄ", "ᶅ", "ᶆ", "ᶇ", "ᶈ", "ᶉ", "ᶊ", "ᶋ", "ᶌ", "ᶍ", "ᶎ", "ᶏ",
     "ᶐ", "ᶑ", "ᶒ", "ᶓ", "ᶔ", "ᶕ", "ᶖ", "ᶗ", "ᶘ", "ᶙ", "ᶚ", "Ẁ",
     "ẁ", "Ẃ", "ẃ", "Ẅ", "ẅ", "Ẇ", "ẇ", "Ẉ", "ẉ", "Ẋ", "ẋ", "Ẍ",
     "ẍ", "Ẏ", "ẏ", "Ẑ", "ẑ", "Ẓ", "ẓ", "Ẕ", "ẕ", "ẖ", "ẗ", "ẘ",
     "ẙ", "ẚ", "ẛ", "ẜ", "ẝ", "ẞ", "ẟ", "Ạ", "ạ", "Ả", "ả", "Ấ",
     "ấ", "Ầ", "ầ", "Ẩ", "ẩ", "Ẫ", "ẫ", "Ậ", "ậ", "Ắ", "ắ", "Ằ",
     "ằ", "Ẳ", "ẳ", "Ẵ", "ẵ", "Ặ", "ặ", "Ẹ", "ẹ", "Ẻ", "ẻ", "Ẽ",
     "ẽ", "Ế", "ế", "Ề", "ề", "Ể", "ể", "Ễ", "ễ", "Ệ", "ệ", "Ỉ",
     "ỉ", "Ị", "ị", "Ọ", "ọ", "Ỏ", "ỏ", "Ố", "ố", "Ồ", "ồ", "Ổ",
     "ổ", "Ỗ", "ỗ", "Ộ", "ộ", "Ớ", "ớ", "Ờ", "ờ", "Ở", "ở", "Ỡ",
     "ỡ", "Ợ", "ợ", "Ụ", "ụ", "Ủ", "ủ", "Ứ", "ứ", "Ừ", "ừ", "Ử",
     "ử", "Ữ", "ữ", "Ự", "ự", "Ỳ", "ỳ", "Ỵ", "ỵ", "Ỷ", "ỷ", "Ỹ",
     "ỹ", "Ỻ", "ỻ", "Ỽ", "ỽ", "Ỿ", "ỿ", "\\u1F70", "\\u1F71", "\\u1F72", "\\u1F73", "\\u1F74",
     "\\u1F75", "\\u1F76", "\\u1F77", "\\u1F78", "\\u1F79", "\\u1F7A", "\\u1F7B", "\\u1F7C", "\\u1F7D", "ᾀ", "ᾁ", "ᾂ",
     "ᾃ", "ᾄ", "ᾅ", "ᾆ", "ᾇ", "ᾈ", "ᾉ", "ᾊ", "ᾋ", "ᾌ", "ᾍ", "ᾎ",
     "ᾏ", "ᾐ", "ᾑ", "ᾒ", "ᾓ", "ᾔ", "ᾕ", "ᾖ", "ᾗ", "ᾘ", "ᾙ", "ᾚ",
     "ᾛ", "ᾜ", "ᾝ", "ᾞ", "ᾟ", "ᾠ", "ᾡ", "ᾢ", "ᾣ", "ᾤ", "ᾥ", "ᾦ",
     "ᾧ", "ᾨ", "ᾩ", "ᾪ", "ᾫ", "ᾬ", "ᾭ", "ᾮ", "ᾯ", "ᾰ", "ᾱ", "ᾲ",
     "ᾳ", "ᾴ", "ᾶ", "ᾷ", "Ᾰ", "Ᾱ", "Ὰ", "Ά", "ᾼ", "ι", "ῂ", "ῃ",
     "ῄ", "ῆ", "ῇ", "Ὲ", "Έ", "Ὴ", "Ή", "ῌ", "ῐ", "ῑ", "ῒ", "ΐ",
     "ῖ", "ῗ", "Ῐ", "Ῑ", "Ὶ", "Ί", "ῠ", "ῡ", "ῢ", "ΰ", "ῤ", "ῥ",
     "ῦ", "ῧ", "Ῠ", "Ῡ", "Ὺ", "Ύ", "Ῥ", "ῲ", "ῳ", "ῴ", "ῶ", "ῷ",
     "Ὸ", "Ό", "Ὼ", "Ώ", "ῼ", "Ↄ", "ↄ", "Ⓐ", "Ⓑ", "Ⓒ", "Ⓓ", "Ⓔ",
     "Ⓕ", "Ⓖ", "Ⓗ", "Ⓘ", "Ⓙ", "Ⓚ", "Ⓛ", "Ⓜ", "Ⓝ", "Ⓞ", "Ⓟ", "Ⓠ",
     "Ⓡ", "Ⓢ", "Ⓣ", "Ⓤ", "Ⓥ", "Ⓦ", "Ⓧ", "Ⓨ", "Ⓩ", "ⓐ", "ⓑ", "ⓒ",
     "ⓓ", "ⓔ", "ⓕ", "ⓖ", "ⓗ", "ⓘ", "ⓙ", "ⓚ", "ⓛ", "ⓜ", "ⓝ", "ⓞ",
     "ⓟ", "ⓠ", "ⓡ", "ⓢ", "ⓣ", "ⓤ", "ⓥ", "ⓦ", "ⓧ", "ⓨ", "ⓩ", "Ⲁ",
     "ⲁ", "Ⲃ", "ⲃ", "Ⲅ", "ⲅ", "Ⲇ", "ⲇ", "Ⲉ", "ⲉ", "Ⲋ", "ⲋ", "Ⲍ",
     "ⲍ", "Ⲏ", "ⲏ", "Ⲑ", "ⲑ", "Ⲓ", "ⲓ", "Ⲕ", "ⲕ", "Ⲗ", "ⲗ", "Ⲙ",
     "ⲙ", "Ⲛ", "ⲛ", "Ⲝ", "ⲝ", "Ⲟ", "ⲟ", "Ⲡ", "ⲡ", "Ⲣ", "ⲣ", "Ⲥ",
     "ⲥ", "Ⲧ", "ⲧ", "Ⲩ", "ⲩ", "Ⲫ", "ⲫ", "Ⲭ", "ⲭ", "Ⲯ", "ⲯ", "Ⲱ",
     "ⲱ", "Ⲳ", "ⲳ", "Ⲵ", "ⲵ", "Ⲷ", "ⲷ", "Ⲹ", "ⲹ", "Ⲻ", "ⲻ", "Ⲽ",
     "ⲽ", "Ⲿ", "ⲿ", "Ⳁ", "ⳁ", "Ⳃ", "ⳃ", "Ⳅ", "ⳅ", "Ⳇ", "ⳇ", "Ⳉ",
     "ⳉ", "Ⳋ", "ⳋ", "Ⳍ", "ⳍ", "Ⳏ", "ⳏ", "Ⳑ", "ⳑ", "Ⳓ", "ⳓ", "Ⳕ",
     "ⳕ", "Ⳗ", "ⳗ", "Ⳙ", "ⳙ", "Ⳛ", "ⳛ", "Ⳝ", "ⳝ", "Ⳟ", "ⳟ", "Ⳡ",
     "ⳡ", "Ⳣ", "ⳣ", "ⳤ", "Ⳬ", "ⳬ", "Ⳮ", "ⳮ", "Ⳳ", "ⳳ", "\\u2D00", "\\u2D01",
     "\\u2D02", "\\u2D03", "\\u2D04", "\\u2D05", "\\u2D06", "\\u2D07", "\\u2D08", "\\u2D09", "\\u2D0A", "\\u2D0B", "\\u2D0C", "\\u2D0D",
     "\\u2D0E", "\\u2D0F", "\\u2D10", "\\u2D11", "\\u2D12", "\\u2D13", "\\u2D14", "\\u2D15", "\\u2D16", "\\u2D17", "\\u2D18", "\\u2D19",
     "\\u2D1A", "\\u2D1B", "\\u2D1C", "\\u2D1D", "\\u2D1E", "\\u2D1F", "\\u2D20", "\\u2D21", "\\u2D22", "\\u2D23", "\\u2D24", "\\u2D25",
     "\\u2D27", "\\u2D2D", "Ꚁ", "ꚁ", "Ꚃ", "ꚃ", "Ꚅ", "ꚅ", "Ꚇ", "ꚇ", "Ꚉ", "ꚉ",
     "Ꚋ", "ꚋ", "Ꚍ", "ꚍ", "Ꚏ", "ꚏ", "Ꚑ", "ꚑ", "Ꚓ", "ꚓ", "Ꚕ", "ꚕ",
     "Ꚗ", "ꚗ", "Ꚙ", "ꚙ", "Ꚛ", "ꚛ", "Ꞁ", "ꞁ", "Ꞃ", "ꞃ", "Ꞅ", "ꞅ",
     "Ꞇ", "ꞇ", "Ꞌ", "ꞌ", "Ɥ", "ꞎ", "Ꞑ", "ꞑ", "Ꞓ", "ꞓ", "ꞔ", "ꞕ",
     "Ꞗ", "ꞗ", "Ꞙ", "ꞙ", "Ꞛ", "ꞛ", "Ꞝ", "ꞝ", "Ꞟ", "ꞟ", "Ꞡ", "ꞡ",
     "Ꞣ", "ꞣ", "Ꞥ", "ꞥ", "Ꞧ", "ꞧ", "Ꞩ", "ꞩ", "Ɦ", "Ɜ", "Ɡ", "Ɬ",
     "Ɪ", "ꞯ", "Ʞ", "Ʇ", "Ʝ", "Ꭓ", "Ꞵ", "ꞵ", "Ꞷ", "ꞷ", "Ꞹ", "ꞹ",
     "Ꞻ", "ꞻ", "Ꞽ", "ꞽ", "Ꞿ", "ꞿ", "Ꟁ", "ꟁ", "Ꟃ", "ꟃ", "Ꞔ", "Ʂ",
     "Ᶎ", "Ꟈ", "ꟈ", "Ꟊ", "ꟊ", "Ꟑ", "ꟑ", "ꟓ", "ꟕ", "Ꟗ", "ꟗ", "Ꟙ",
     "ꟙ", "Ꟶ", "ꟶ", "ꟺ", "\\uAB53", "\\uAB70", "\\uAB71", "\\uAB72", "\\uAB73", "\\uAB74", "\\uAB75", "\\uAB76",
     "\\uAB77", "\\uAB78", "\\uAB79", "\\uAB7A", "\\uAB7B", "\\uAB7C", "\\uAB7D", "\\uAB7E", "\\uAB7F", "ꮀ", "ꮁ", "ꮂ",
     "ꮃ", "ꮄ", "ꮅ", "ꮆ", "ꮇ", "ꮈ", "ꮉ", "ꮊ", "ꮋ", "ꮌ", "ꮍ", "ꮎ",
     "ꮏ", "ꮐ", "ꮑ", "ꮒ", "ꮓ", "ꮔ", "ꮕ", "ꮖ", "ꮗ", "ꮘ", "ꮙ", "ꮚ",
     "ꮛ", "ꮜ", "ꮝ", "ꮞ", "ꮟ", "ꮠ", "ꮡ", "ꮢ", "ꮣ", "ꮤ", "ꮥ", "ꮦ",
     "ꮧ", "ꮨ", "ꮩ", "ꮪ", "ꮫ", "ꮬ", "ꮭ", "ꮮ", "ꮯ", "ꮰ", "ꮱ", "ꮲ",
     "ꮳ", "ꮴ", "ꮵ", "ꮶ", "ꮷ", "ꮸ", "ꮹ", "ꮺ", "ꮻ", "ꮼ", "ꮽ", "ꮾ",
     "ꮿ"}

\* str.isdigit: a non-empty text all of whose characters are digits
isdigit(s) == Len(s) > 0 /\ \A i \in 1..Len(s) : s[i] \in Digits

\* str(n) of an int: its decimal digits, after "-" when it is negative
RECURSIVE Decimal(_)
Decimal(n) ==
    IF n < 0
    THEN <<"-">> \o Decimal(0 - n)
    ELSE IF n < 10
    THEN <<DigitChars[n + 1]>>
    ELSE Decimal(n \div 10) \o <<DigitChars[(n % 10) + 1]>>

\* str(c) of an element of a composition: [int |-> n] stands for the int n,
\* [str |-> s] for the text s
str(c) == IF "int" \in DOMAIN c THEN Decimal(c.int) ELSE c.str

\* a capital sigma at position i of s is lowered to the final sigma when a
\* cased character stands before it and none after it, the case-ignorable
\* characters in between being skipped
FinalSigma(s, i) ==
    /\ \E j \in 1..(i - 1) :
           /\ s[j] \in Cased
           /\ \A k \in (j + 1)..(i - 1) : s[k] \in CaseIgnorable
    /\ ~\E j \in (i + 1)..Len(s) :
           /\ s[j] \in Cased
           /\ \A k \in (i + 1)..(j - 1) : s[k] \in CaseIgnorable

\* str.lower, character by character
lower(s) ==
    [i \in 1..Len(s) |->
        IF s[i] = "Σ"
        THEN (IF FinalSigma(s, i) THEN "ς" ELSE "σ")
        ELSE IF s[i] \in DOMAIN ToLower
        THEN ToLower[s[i]]
        ELSE s[i]]

id14905 == <<"1", "4", "9", "0", "5">>
id24920 == <<"2", "4", "9", "2", "0">>
id14647 == <<"1", "4", "6", "4", "7">>
id9011 == <<"9", "0", "1", "1">>
id8998 == <<"8", "9", "9", "8">>
id9004 == <<"9", "0", "0", "4">>
id12345 == <<"1", "2", "3", "4", "5">>
id15460 == <<"1", "5", "4", "6", "0">>
id99999 == <<"9", "9", "9", "9", "9">>
superscript_two == <<"²">>
extended_arabic_three == <<"۳">>
slash == <<"/">>
semicolon == <<";">>

building == <<"b", "u", "i", "l", "d", "i", "n", "g">>
Building == <<"B", "u", "i", "l", "d", "i", "n", "g">>
house == <<"h", "o", "u", "s", "e">>
House == <<"H", "o", "u", "s", "e">>
medicine == <<"m", "e", "d", "i", "c", "i", "n", "e">>
byggnad == <<"b", "y", "g", "g", "n", "a", "d">>
gaard == <<"g", "å", "r", "d">>
GAARD == <<"G", "Å", "R", "D">>
domos == <<"δ", "ό", "μ", "ο", "ς">>
DOMOS == <<"Δ", "Ό", "Μ", "Ο", "Σ">>
nothing == <<"n", "o", "t", "h", "i", "n", "g">>
not_a_dict == <<"n", "o", "t", " ", "a", " ", "d", "i", "c", "t">>
clinic == <<"c", "l", "i", "n", "i", "c">>
unknown == <<"(", "u", "n", "k", "n", "o", "w", "n", ")">>
many == <<"m", "a", "n", "y">>
much == <<"m", "u", "c", "h">>
plural == <<"p", "l", "u", "r", "a", "l">>
Plural == <<"P", "l", "u", "r", "a", "l">>
adjective == <<"a", "d", "j", "e", "c", "t", "i", "v", "e">>
verb == <<"v", "e", "r", "b">>
past == <<"p", "a", "s", "t">>
NUMBER == <<"N", "U", "M", "B", "E", "R">>
number == <<"n", "u", "m", "b", "e", "r">>
QUANTIFIER == <<"Q", "U", "A", "N", "T", "I", "F", "I", "E", "R">>
POS == <<"P", "O", "S">>
TENSE == <<"T", "E", "N", "S", "E">>

---------------------------------------------------------------------------
(* The dictionary and the semantic tables *)

\* dict.get(key, default) on a record or function standing for a Python dict
Get(d, key, default) == IF key \in DOMAIN d THEN d[key] ELSE default

\* The symbol records: the dictionaries of the test fixtures, with 12345 (a
\* grey composed word that shares the gloss "house" with the character 14905)
\* and 15460 (a red symbol that is also a key of MODIFIER_SEMANTICS).  The two
\* characters share the gloss "clinic" and the composed words 14647 and 15460
\* the gloss "many".
bliss_nodes ==
    (id14905 :> [pos |-> "YELLOW", isCharacter |-> TRUE,
                 glosses |-> [en |-> <<building, house, clinic>>,
                             sv |-> <<byggnad, gaard>>, el |-> <<domos>>]]) @@
    (id24920 :> [pos |-> "BLUE", isCharacter |-> TRUE,
                 glosses |-> [en |-> <<medicine, clinic>>]]) @@
    (id14647 :> [pos |-> "WHITE", isCharacter |-> FALSE,
                 glosses |-> [en |-> <<many>>],
                 semantics |-> [type |-> QUANTIFIER, value |-> many]]) @@
    (id9011 :> [pos |-> "WHITE", isCharacter |-> FALSE,
                glosses |-> [en |-> <<plural>>],
                semantics |-> [type |-> NUMBER, value |-> plural]]) @@
    (id12345 :> [pos |-> "GREY", isCharacter |-> FALSE,
                 glosses |-> [en |-> <<house>>]]) @@
    (id15460 :> [pos |-> "RED", isCharacter |-> FALSE,
                 glosses |-> [en |-> <<much, many>>]])

\* the key orders a dictionary with these records is loaded in
DictOrders ==
    { <<id14905, id24920, id14647, id9011, id12345, id15460>>,
      <<id15460, id12345, id9011, id14647, id24920, id14905>> }

\* INDICATOR_SEMANTICS as the module is imported, in iteration order:
\* <<symbol id, semantic info>>
INDICATOR_SEMANTICS ==
    << <<id8998, [type |-> POS, value |-> adjective]>>,
       <<id9011, [type |-> NUMBER, value |-> plural]>>,
       <<id9004, [and |-> << [type |-> POS, value |-> verb],
                             [type |-> TENSE, value |-> past] >>]>> >>

\* MODIFIER_SEMANTICS as the module is imported, in iteration order:
\* <<symbol id, semantic info>>
MODIFIER_SEMANTICS ==
    << <<id14647, [type |-> QUANTIFIER, value |-> many]>>,
       <<id15460, [or |-> << [type |-> QUANTIFIER, value |-> much],
                             [type |-> NUMBER, value |-> plural] >>]>> >>

\* dict.keys()
Keys(table) == {table[i][1] : i \in 1..Len(table)}

---------------------------------------------------------------------------
(* SymbolClassifier *)

CLASSIFIER_POS == {"YELLOW", "RED", "GREEN", "BLUE"}
MODIFIER_POS == {"GREY", "WHITE"}

is_classifier(symbol_id) ==
    IF symbol_id \notin DOMAIN bliss_nodes
    THEN FALSE
    ELSE Get(bliss_nodes[symbol_id], "pos", "") \in CLASSIFIER_POS

is_modifier(symbol_id) == symbol_id \in modifiers

is_indicator(symbol_id) == symbol_id \in indicators

\* an entry of a result's errors or warnings list: the message and the text
\* the f-string puts into it
Msg(text, arg) == [msg |-> text, arg |-> arg]

\* ValidIds without the filter: every token is taken for a symbol id
ValidIds_Unfiltered(symbol_ids) == symbol_ids

\* valid_ids = [s for s in symbol_ids if str(s).isdigit()]
ValidIds(symbol_ids) == SelectSeq(symbol_ids, isdigit)

\* the position (from 1) of the first indicator of valid_ids, 0 when there is none
FirstIndicatorIdx(valid_ids) ==
    IF \E i \in 1..Len(valid_ids) : is_indicator(valid_ids[i])
    THEN CHOOSE i \in 1..Len(valid_ids) :
            /\ is_indicator(valid_ids[i])
            /\ \A j \in 1..(i - 1) : ~is_indicator(valid_ids[j])
    ELSE 0

EmptyClassification ==
    [classifier |-> None, specifiers |-> <<>>, indicators |-> <<>>,
     modifiers |-> <<>>, errors |-> <<>>]

\* IndicatorRule with the prefix loop one short: range(first_indicator_idx - 2)
IndicatorRule_ShortPrefix(valid_ids, idx) ==
    IF idx > 1
    THEN LET rest == SubSeq(valid_ids, idx, Len(valid_ids))
         IN  [classifier |-> valid_ids[idx - 1],
              specifiers |-> SelectSeq(rest,
                  LAMBDA s : ~is_indicator(s) /\ ~is_modifier(s)),
              indicators |-> SelectSeq(rest, is_indicator),
              modifiers |-> SubSeq(valid_ids, 1, idx - 3) \o
                  SelectSeq(rest, LAMBDA s : ~is_indicator(s) /\ is_modifier(s)),
              errors |-> <<>>]
    ELSE [EmptyClassification EXCEPT !.errors =
              <<Msg("First symbol is an indicator; no classifier found before it", None)>>]

\* IndicatorRule with the loop over the indicators and what follows them
\* outside the "first_indicator_idx > 0" branch: it also runs after the error
IndicatorRule_LoopAfterError(valid_ids, idx) ==
    LET rest == SubSeq(valid_ids, idx, Len(valid_ids))
    IN  [classifier |-> IF idx > 1 THEN valid_ids[idx - 1] ELSE None,
         specifiers |-> SelectSeq(rest,
             LAMBDA s : ~is_indicator(s) /\ ~is_modifier(s)),
         indicators |-> SelectSeq(rest, is_indicator),
         modifiers |-> SubSeq(valid_ids, 1, idx - 2) \o
             SelectSeq(rest, LAMBDA s : ~is_indicator(s) /\ is_modifier(s)),
         errors |-> IF idx > 1 THEN <<>> ELSE
             <<Msg("First symbol is an indicator; no classifier found before it", None)>>]

\* IndicatorRule where the loop from the first indicator on knows indicators
\* only: a modifier after the first indicator is taken for a specifier
IndicatorRule_NoSuffixModifiers(valid_ids, idx) ==
    IF idx > 1
    THEN LET rest == SubSeq(valid_ids, idx, Len(valid_ids))
         IN  [classifier |-> valid_ids[idx - 1],
              specifiers |-> SelectSeq(rest, LAMBDA s : ~is_indicator(s)),
              indicators |-> SelectSeq(rest, is_indicator),
              modifiers |-> SubSeq(valid_ids, 1, idx - 2),
              errors |-> <<>>]
    ELSE [EmptyClassification EXCEPT !.errors =
              <<Msg("First symbol is an indicator; no classifier found before it", None)>>]

\* IndicatorRule that collects the modifiers after the first indicator before
\* it adds the ids in front of the classifier
IndicatorRule_SuffixFirst(valid_ids, idx) ==
    IF idx > 1
    THEN LET rest == SubSeq(valid_ids, idx, Len(valid_ids))
         IN  [classifier |-> valid_ids[idx - 1],
              specifiers |-> SelectSeq(rest,
                  LAMBDA s : ~is_indicator(s) /\ ~is_modifier(s)),
              indicators |-> SelectSeq(rest, is_indicator),
              modifiers |->
                  SelectSeq(rest, LAMBDA s : ~is_indicator(s) /\ is_modifier(s))
                      \o SubSeq(valid_ids, 1, idx - 2),
              errors |-> <<>>]
    ELSE [EmptyClassification EXCEPT !.errors =
              <<Msg("First symbol is an indicator; no classifier found before it", None)>>]

\* Rule 1, with the first indicator at position idx > 0
IndicatorRule(valid_ids, idx) ==
    IF idx > 1
    THEN LET rest == SubSeq(valid_ids, idx, Len(valid_ids))
         IN  [classifier |-> valid_ids[idx - 1],
              specifiers |-> SelectSeq(rest,
                  LAMBDA s : ~is_indicator(s) /\ ~is_modifier(s)),
              indicators |-> SelectSeq(rest, is_indicator),
              modifiers |-> SubSeq(valid_ids, 1, idx - 2) \o
                  SelectSeq(rest, LAMBDA s : ~is_indicator(s) /\ is_modifier(s)),
              errors |-> <<>>]
    ELSE [EmptyClassification EXCEPT !.errors =
              <<Msg("First symbol is an indicator; no classifier found before it", None)>>]

\* PosLoop that asks for the part of speech before the modifier table: a
\* head-bearing modifier may become the classifier
RECURSIVE PosLoop_PosBeforeModifier(_, _, _)
PosLoop_PosBeforeModifier(valid_ids, i, res) ==
    IF i > Len(valid_ids)
    THEN res
    ELSE LET symbol_id == valid_ids[i]
         IN  IF is_classifier(symbol_id) /\ res.classifier = None
             THEN PosLoop_PosBeforeModifier(valid_ids, i + 1,
                      [res EXCEPT !.classifier = symbol_id])
             ELSE IF is_modifier(symbol_id)
             THEN PosLoop_PosBeforeModifier(valid_ids, i + 1,
                      [res EXCEPT !.modifiers = Append(@, symbol_id)])
             ELSE PosLoop_PosBeforeModifier(valid_ids, i + 1,
                      [res EXCEPT !.specifiers = Append(@, symbol_id)])

\* Rule 2: the loop over valid_ids from position i on; has_classifier is
\* res.classifier # None, since the loop is the only writer of the classifier
RECURSIVE PosLoop(_, _, _)
PosLoop(valid_ids, i, res) ==
    IF i > Len(valid_ids)
    THEN res
    ELSE LET symbol_id == valid_ids[i]
         IN  IF is_modifier(symbol_id)
             THEN PosLoop(valid_ids, i + 1,
                      [res EXCEPT !.modifiers = Append(@, symbol_id)])
             ELSE IF is_classifier(symbol_id) /\ res.classifier = None
             THEN PosLoop(valid_ids, i + 1, [res EXCEPT !.classifier = symbol_id])
             ELSE PosLoop(valid_ids, i + 1,
                      [res EXCEPT !.specifiers = Append(@, symbol_id)])

\* SatelliteFallback that leaves the promoted first id among the specifiers
SatelliteFallback_KeepSpecifier(valid_ids, res) ==
    LET first_id == valid_ids[1]
    IN  IF first_id \in DOMAIN bliss_nodes
        THEN IF Get(bliss_nodes[first_id], "pos", "") \in MODIFIER_POS
             THEN [res EXCEPT !.classifier = first_id]
             ELSE [res EXCEPT !.errors =
                      Append(@, Msg("No classifier found in composition", None))]
        ELSE [res EXCEPT !.errors =
                 Append(@, Msg("Symbol not found in knowledge graph", first_id))]

\* SatelliteFallback that makes the first id the classifier whenever it is in
\* the dictionary, and still reports the error when its pos is no satellite's
SatelliteFallback_PromoteWithError(valid_ids, res) ==
    LET first_id == valid_ids[1]
    IN  IF first_id \in DOMAIN bliss_nodes
        THEN IF Get(bliss_nodes[first_id], "pos", "") \in MODIFIER_POS
             THEN [res EXCEPT !.classifier = first_id,
                              !.specifiers = SelectSeq(@, LAMBDA s : s # first_id)]
             ELSE [res EXCEPT !.classifier = first_id,
                              !.errors =
                      Append(@, Msg("No classifier found in composition", None))]
        ELSE [res EXCEPT !.errors =
                 Append(@, Msg("Symbol not found in knowledge graph", first_id))]

\* Rule 3: no classifier after rule 2
SatelliteFallback(valid_ids, res) ==
    LET first_id == valid_ids[1]
    IN  IF first_id \in DOMAIN bliss_nodes
        THEN IF Get(bliss_nodes[first_id], "pos", "") \in MODIFIER_POS
             THEN [res EXCEPT !.classifier = first_id,
                              !.specifiers = SelectSeq(@, LAMBDA s : s # first_id)]
             ELSE [res EXCEPT !.errors =
                      Append(@, Msg("No classifier found in composition", None))]
        ELSE [res EXCEPT !.errors =
                 Append(@, Msg("Symbol not found in knowledge graph", first_id))]

PosRule(valid_ids) ==
    LET res == PosLoop(valid_ids, 1, EmptyClassification)
    IN  IF res.classifier = None
        THEN SatelliteFallback(valid_ids, res)
        ELSE res

classify_composition(symbol_ids) ==
    LET valid_ids == ValidIds(symbol_ids)
        idx == FirstIndicatorIdx(valid_ids)
    IN  IF valid_ids = <<>>
        THEN [EmptyClassification EXCEPT !.errors =
                 <<Msg("No valid symbol IDs found in composition", None)>>]
        ELSE IF idx > 0
        THEN IndicatorRule(valid_ids, idx)
        ELSE PosRule(valid_ids)

---------------------------------------------------------------------------
(* BlissComposer *)

\* the loop over a node's English glosses where the first symbol indexed under
\* a gloss always keeps it
RECURSIVE IndexGlosses_FirstWriter(_, _, _, _)
IndexGlosses_FirstWriter(g2i, node_id, en_glosses, k) ==
    IF k > Len(en_glosses)
    THEN g2i
    ELSE LET gloss == en_glosses[k]
         IN  IF gloss \notin DOMAIN g2i
             THEN IndexGlosses_FirstWriter(g2i @@ (gloss :> node_id),
                                           node_id, en_glosses, k + 1)
             ELSE IndexGlosses_FirstWriter(g2i, node_id, en_glosses, k + 1)

\* the loop over a node's English glosses, from gloss k on
RECURSIVE IndexGlosses(_, _, _, _)
IndexGlosses(g2i, node_id, en_glosses, k) ==
    IF k > Len(en_glosses)
    THEN g2i
    ELSE LET gloss == en_glosses[k]
         IN  IF gloss \notin DOMAIN g2i
             THEN IndexGlosses(g2i @@ (gloss :> node_id), node_id, en_glosses, k + 1)
             ELSE IF /\ Get(bliss_nodes[node_id], "isCharacter", FALSE)
                     /\ ~Get(bliss_nodes[g2i[gloss]], "isCharacter", FALSE)
             THEN IndexGlosses([g2i EXCEPT ![gloss] = node_id],
                               node_id, en_glosses, k + 1)
             ELSE IndexGlosses(g2i, node_id, en_glosses, k + 1)

\* _build_reverse_lookups: gloss_to_id, over the nodes from position i on
RECURSIVE BuildGlossToId(_, _, _)
BuildGlossToId(order, i, g2i) ==
    IF i > Len(order)
    THEN g2i
    ELSE LET glosses == Get(bliss_nodes[order[i]], "glosses", <<>>)
         IN  BuildGlossToId(order, i + 1,
                 IndexGlosses(g2i, order[i], Get(glosses, "en", <<>>), 1))

\* the key of semantic_path_to_id: f"{effect['type']}:{effect['value']}"
SemanticPath(effect) == effect.type \o <<":">> \o effect.value

\* _build_reverse_lookups: semantic_path_to_id, over the nodes from position i on
RECURSIVE BuildSemanticPathToId(_, _, _)
BuildSemanticPathToId(order, i, p2i) ==
    IF i > Len(order)
    THEN p2i
    ELSE LET node == bliss_nodes[order[i]]
         IN  IF /\ "semantics" \in DOMAIN node
                /\ "type" \in DOMAIN node.semantics
                /\ "value" \in DOMAIN node.semantics
                /\ SemanticPath(node.semantics) \notin DOMAIN p2i
             THEN BuildSemanticPathToId(order, i + 1,
                      p2i @@ (SemanticPath(node.semantics) :> order[i]))
             ELSE BuildSemanticPathToId(order, i + 1, p2i)

\* whether some gloss of the node, in any language, equals gloss_lower once lowered
NodeHasGloss(node_id, gloss_lower) ==
    LET glosses == Get(bliss_nodes[node_id], "glosses", <<>>)
    IN  \E lang \in DOMAIN glosses :
            \E k \in 1..Len(glosses[lang]) : lower(glosses[lang][k]) = gloss_lower

\* _find_symbol_by_gloss whose scan reads the English glosses only
_find_symbol_by_gloss_EnglishScan(gloss) ==
    IF gloss \in DOMAIN gloss_to_id
    THEN gloss_to_id[gloss]
    ELSE LET en_glosses(i) ==
                 Get(Get(bliss_nodes[bliss_dict[i]], "glosses", <<>>), "en", <<>>)
             found == {i \in 1..Len(bliss_dict) :
                          \E k \in 1..Len(en_glosses(i)) :
                              lower(en_glosses(i)[k]) = lower(gloss)}
         IN  IF found = {}
             THEN None
             ELSE bliss_dict[CHOOSE i \in found : \A j \in found : i <= j]

\* _find_symbol_by_gloss: the exact match in the index, else the first node
\* (in dictionary order) with a gloss that matches ignoring case
_find_symbol_by_gloss(gloss) ==
    IF gloss \in DOMAIN gloss_to_id
    THEN gloss_to_id[gloss]
    ELSE IF \E i \in 1..Len(bliss_dict) : NodeHasGloss(bliss_dict[i], lower(gloss))
    THEN bliss_dict[CHOOSE i \in 1..Len(bliss_dict) :
            /\ NodeHasGloss(bliss_dict[i], lower(gloss))
            /\ \A j \in 1..(i - 1) : ~NodeHasGloss(bliss_dict[j], lower(gloss))]
    ELSE None

\* one {type, value} pair against the request
PairMatches(pair, sem_type, sem_value_lower) ==
    /\ "type" \in DOMAIN pair
    /\ pair.type = sem_type
    /\ lower(Get(pair, "value", <<>>)) = sem_value_lower

_matches_semantic(semantic_info, sem_type, sem_value_lower) ==
    \/ PairMatches(semantic_info, sem_type, sem_value_lower)
    \/ /\ "or" \in DOMAIN semantic_info
       /\ \E k \in 1..Len(semantic_info["or"]) :
            PairMatches(semantic_info["or"][k], sem_type, sem_value_lower)
    \/ /\ "and" \in DOMAIN semantic_info
       /\ \E k \in 1..Len(semantic_info["and"]) :
            PairMatches(semantic_info["and"][k], sem_type, sem_value_lower)

\* the id of the first entry of a table that matches, None when none does
FirstMatch(table, sem_type, sem_value_lower) ==
    IF \E i \in 1..Len(table) : _matches_semantic(table[i][2], sem_type, sem_value_lower)
    THEN table[CHOOSE i \in 1..Len(table) :
            /\ _matches_semantic(table[i][2], sem_type, sem_value_lower)
            /\ \A j \in 1..(i - 1) :
                ~_matches_semantic(table[j][2], sem_type, sem_value_lower)][1]
    ELSE None

\* _find_semantic_symbol comparing the requested value as given, not lowered
_find_semantic_symbol_ExactValue(semantic_type, semantic_value) ==
    LET ind == FirstMatch(tables.indicator, semantic_type, semantic_value)
    IN  IF ind # None
        THEN ind
        ELSE FirstMatch(tables.modifier, semantic_type, semantic_value)

\* _find_semantic_symbol that searches the modifiers before the indicators
_find_semantic_symbol_ModifiersFirst(semantic_type, semantic_value) ==
    LET value_lower == lower(semantic_value)
        mod == FirstMatch(tables.modifier, semantic_type, value_lower)
    IN  IF mod # None
        THEN mod
        ELSE FirstMatch(tables.indicator, semantic_type, value_lower)

\* _find_semantic_symbol: the indicators are searched before the modifiers
_find_semantic_symbol(semantic_type, semantic_value) ==
    LET value_lower == lower(semantic_value)
        ind == FirstMatch(tables.indicator, semantic_type, value_lower)
    IN  IF ind # None
        THEN ind
        ELSE FirstMatch(tables.modifier, semantic_type, value_lower)

\* FindSymbolsLoop that passes over an item with more than one key in silence
RECURSIVE FindSymbolsLoop_SkipComplex(_, _, _)
FindSymbolsLoop_SkipComplex(semantics, k, res) ==
    IF k > Len(semantics)
    THEN res
    ELSE LET semantic_item == semantics[k]
             symbol_id == _find_semantic_symbol(semantic_item[1][1], semantic_item[1][2])
         IN  IF Len(semantic_item) # 1
             THEN FindSymbolsLoop_SkipComplex(semantics, k + 1, res)
             ELSE IF symbol_id # None
             THEN FindSymbolsLoop_SkipComplex(semantics, k + 1,
                      [res EXCEPT !.ids = Append(@, symbol_id)])
             ELSE FindSymbolsLoop_SkipComplex(semantics, k + 1,
                      [res EXCEPT !.warnings = Append(@,
                          Msg("No symbol found for semantic",
                              semantic_item[1][1] \o <<":">> \o semantic_item[1][2]))])

\* _find_symbols_for_semantics: the loop from item k on.  A semantic item is
\* the sequence of the <<key, value>> pairs of its dict.
RECURSIVE FindSymbolsLoop(_, _, _)
FindSymbolsLoop(semantics, k, res) ==
    IF k > Len(semantics)
    THEN res
    ELSE LET semantic_item == semantics[k]
         IN  IF Len(semantic_item) = 1
             THEN LET attr_type == semantic_item[1][1]
                      attr_value == semantic_item[1][2]
                      symbol_id == _find_semantic_symbol(attr_type, attr_value)
                  IN  IF symbol_id # None
                      THEN FindSymbolsLoop(semantics, k + 1,
                               [res EXCEPT !.ids = Append(@, symbol_id)])
                      ELSE FindSymbolsLoop(semantics, k + 1,
                               [res EXCEPT !.warnings = Append(@,
                                   Msg("No symbol found for semantic",
                                       attr_type \o <<":">> \o attr_value))])
             ELSE FindSymbolsLoop(semantics, k + 1,
                      [res EXCEPT !.warnings = Append(@,
                          Msg("Complex semantic spec not fully supported",
                              semantic_item))])

_find_symbols_for_semantics(semantics) ==
    FindSymbolsLoop(semantics, 1, [ids |-> <<>>, warnings |-> <<>>])

\* compose_from_semantic_spec: the loop over the specifier glosses, from gloss k on
RECURSIVE SpecifierLoop(_, _, _)
SpecifierLoop(specifiers, k, res) ==
    IF k > Len(specifiers)
    THEN res
    ELSE LET specifier_id == _find_symbol_by_gloss(specifiers[k])
         IN  IF specifier_id # None
             THEN SpecifierLoop(specifiers, k + 1,
                      [res EXCEPT !.composition = Append(@, specifier_id)])
             ELSE SpecifierLoop(specifiers, k + 1,
                      [res EXCEPT !.warnings = Append(@,
                          Msg("Specifier not found", specifiers[k]))])

\* compose_from_semantic_spec with the classifier looked up and appended
\* first and the "not classifier_id" check made after the specifier loop
compose_from_semantic_spec_LateCheck(semantic_spec) ==
    IF "classifier" \notin DOMAIN semantic_spec
    THEN [error |-> Msg("Missing required field: classifier", None)]
    ELSE LET res0 == [original_spec |-> semantic_spec, composition |-> <<>>,
                      errors |-> <<>>, warnings |-> <<>>]
             classifier_id == _find_symbol_by_gloss(semantic_spec.classifier)
             res1 == SpecifierLoop(Get(semantic_spec, "specifiers", <<>>), 1,
                         [res0 EXCEPT !.composition = <<classifier_id>>])
             semantic_ids ==
                 _find_symbols_for_semantics(Get(semantic_spec, "semantics", <<>>))
         IN  IF classifier_id = None
             THEN [error |-> Msg("Classifier not found", semantic_spec.classifier),
                   details |-> res1]
             ELSE [res1 EXCEPT !.composition = @ \o semantic_ids.ids,
                               !.warnings = @ \o semantic_ids.warnings]

\* compose_from_semantic_spec with the semantic symbols added before the specifiers
compose_from_semantic_spec_SemanticsFirst(semantic_spec) ==
    IF "classifier" \notin DOMAIN semantic_spec
    THEN [error |-> Msg("Missing required field: classifier", None)]
    ELSE LET res0 == [original_spec |-> semantic_spec, composition |-> <<>>,
                      errors |-> <<>>, warnings |-> <<>>]
             classifier_id == _find_symbol_by_gloss(semantic_spec.classifier)
             semantic_ids ==
                 _find_symbols_for_semantics(Get(semantic_spec, "semantics", <<>>))
             res1 == SpecifierLoop(Get(semantic_spec, "specifiers", <<>>), 1,
                         [res0 EXCEPT !.composition = <<classifier_id>> \o semantic_ids.ids])
         IN  IF classifier_id = None
             THEN [error |-> Msg("Classifier not found", semantic_spec.classifier),
                   details |-> res0]
             ELSE [res1 EXCEPT !.warnings = @ \o semantic_ids.warnings]

compose_from_semantic_spec(semantic_spec) ==
    IF "classifier" \notin DOMAIN semantic_spec
    THEN [error |-> Msg("Missing required field: classifier", None)]
    ELSE LET res0 == [original_spec |-> semantic_spec, composition |-> <<>>,
                      errors |-> <<>>, warnings |-> <<>>]
             classifier_id == _find_symbol_by_gloss(semantic_spec.classifier)
             res1 == SpecifierLoop(Get(semantic_spec, "specifiers", <<>>), 1,
                         [res0 EXCEPT !.composition = <<classifier_id>>])
             semantic_ids ==
                 _find_symbols_for_semantics(Get(semantic_spec, "semantics", <<>>))
         IN  IF classifier_id = None
             THEN [error |-> Msg("Classifier not found", semantic_spec.classifier),
                   details |-> res0]
             ELSE IF "error" \in DOMAIN semantic_ids
             THEN [error |-> Msg("Error processing semantics", semantic_ids.error),
                   details |-> res1]
             ELSE [res1 EXCEPT !.composition = @ \o semantic_ids.ids,
                               !.warnings = @ \o semantic_ids.warnings]

\* compose_with_modifiers: one of its three loops, from id k on; what names
\* the role in the warning
RECURSIVE AddIdsLoop(_, _, _, _)
AddIdsLoop(ids, k, what, res) ==
    IF k > Len(ids)
    THEN res
    ELSE IF ids[k] \in DOMAIN bliss_nodes
    THEN AddIdsLoop(ids, k + 1, what,
             [res EXCEPT !.composition = Append(@, ids[k])])
    ELSE AddIdsLoop(ids, k + 1, what,
             [res EXCEPT !.warnings = Append(@, Msg(what, ids[k]))])

\* compose_with_modifiers with the classifier added before the modifiers
compose_with_modifiers_ClassifierFirst(classifier_id, specifier_ids, modifier_ids, indicator_ids) ==
    LET res0 == [composition |-> <<>>, errors |-> <<>>, warnings |-> <<>>]
        res1 == [res0 EXCEPT !.composition = Append(@, classifier_id)]
        res2 == AddIdsLoop(modifier_ids, 1, "Modifier not found", res1)
        res3 == AddIdsLoop(specifier_ids, 1, "Specifier not found", res2)
    IN  IF classifier_id \notin DOMAIN bliss_nodes
        THEN [composition |-> <<>>, errors |-> <<>>, warnings |-> <<>>,
              error |-> Msg("Classifier not found", classifier_id)]
        ELSE AddIdsLoop(indicator_ids, 1, "Indicator not found", res3)

\* the absent lists (None) are the empty ones: "if modifier_ids:" skips both
compose_with_modifiers(classifier_id, specifier_ids, modifier_ids, indicator_ids) ==
    LET res0 == [composition |-> <<>>, errors |-> <<>>, warnings |-> <<>>]
        res1 == AddIdsLoop(modifier_ids, 1, "Modifier not found", res0)
        res2 == [res1 EXCEPT !.composition = Append(@, classifier_id)]
        res3 == AddIdsLoop(specifier_ids, 1, "Specifier not found", res2)
    IN  IF classifier_id \notin DOMAIN bliss_nodes
        THEN [composition |-> res1.composition, errors |-> res1.errors,
              warnings |-> res1.warnings,
              error |-> Msg("Classifier not found", classifier_id)]
        ELSE AddIdsLoop(indicator_ids, 1, "Indicator not found", res3)

\* BlissEngine.compose_from_semantic
compose_from_semantic(semantic_spec) == compose_from_semantic_spec(semantic_spec)

\* BlissEngine.compose_with_ids
compose_with_ids(classifier_id, specifier_ids, modifier_ids, indicator_ids) ==
    compose_with_modifiers(classifier_id, specifier_ids, modifier_ids, indicator_ids)

---------------------------------------------------------------------------
(* BlissAnalyzer *)

\* get_symbol_glosses without the fallback to the English glosses
get_symbol_glosses_NoFallback(symbol_id, language) ==
    IF symbol_id \notin DOMAIN bliss_nodes
    THEN [error |-> Msg("Symbol not found", symbol_id)]
    ELSE LET node == bliss_nodes[symbol_id]
             glosses == Get(node, "glosses", <<>>)
         IN  [id |-> symbol_id,
              glosses |-> Get(glosses, language, <<>>),
              explanation |-> Get(node, "explanation", <<>>),
              isCharacter |-> Get(node, "isCharacter", FALSE)]

\* BlissAnalyzer.get_symbol_glosses
get_symbol_glosses(symbol_id, language) ==
    IF symbol_id \notin DOMAIN bliss_nodes
    THEN [error |-> Msg("Symbol not found", symbol_id)]
    ELSE LET node == bliss_nodes[symbol_id]
             glosses == Get(node, "glosses", <<>>)
         IN  [id |-> symbol_id,
              glosses |-> Get(glosses, language, Get(glosses, "en", <<>>)),
              explanation |-> Get(node, "explanation", <<>>),
              isCharacter |-> Get(node, "isCharacter", FALSE)]

\* BlissAnalyzer._get_symbol_glosses
_get_symbol_glosses(symbol_id, language) ==
    IF symbol_id \notin DOMAIN bliss_nodes
    THEN [id |-> symbol_id, error |-> "not found"]
    ELSE LET node == bliss_nodes[symbol_id]
             glosses == Get(node, "glosses", <<>>)
         IN  [id |-> symbol_id,
              gloss |-> Get(glosses, language, Get(glosses, "en", <<unknown>>)),
              isCharacter |-> Get(node, "isCharacter", FALSE)]

\* semantics_map of _extract_semantics
SemanticsMap(symbol_type) ==
    IF symbol_type = "indicator" THEN tables.indicator ELSE tables.modifier

\* semantics_map[symbol_id], for a key of the table
Lookup(table, symbol_id) ==
    table[CHOOSE i \in 1..Len(table) : table[i][1] = symbol_id][2]

\* _extract_semantics that keeps the first alternative of an "or" entry only
_extract_semantics_FirstAlternative(symbol_id, symbol_type) ==
    IF symbol_id \notin Keys(SemanticsMap(symbol_type))
    THEN None
    ELSE LET semantic_info == Lookup(SemanticsMap(symbol_type), symbol_id)
         IN  IF "or" \in DOMAIN semantic_info
             THEN [symbol_id |-> symbol_id, type |-> symbol_type,
                   alternatives |-> <<semantic_info["or"][1]>>]
             ELSE IF "and" \in DOMAIN semantic_info
             THEN [symbol_id |-> symbol_id, type |-> symbol_type,
                   combined |-> semantic_info["and"]]
             ELSE IF ~({"type", "value"} \subseteq DOMAIN semantic_info)
             THEN None
             ELSE IF symbol_type = "indicator"
             THEN [symbol_id |-> symbol_id,
                   indicator |-> << <<semantic_info.type, semantic_info.value>> >>]
             ELSE [symbol_id |-> symbol_id,
                   modifier |-> << <<semantic_info.type, semantic_info.value>> >>]

\* BlissAnalyzer._extract_semantics; the dict {type: value} of a simple entry
\* is the sequence of its <<key, value>> pairs, under the key symbol_type
_extract_semantics(symbol_id, symbol_type) ==
    IF symbol_id \notin Keys(SemanticsMap(symbol_type))
    THEN None
    ELSE LET semantic_info == Lookup(SemanticsMap(symbol_type), symbol_id)
         IN  IF "or" \in DOMAIN semantic_info
             THEN [symbol_id |-> symbol_id, type |-> symbol_type,
                   alternatives |-> semantic_info["or"]]
             ELSE IF "and" \in DOMAIN semantic_info
             THEN [symbol_id |-> symbol_id, type |-> symbol_type,
                   combined |-> semantic_info["and"]]
             ELSE IF ~({"type", "value"} \subseteq DOMAIN semantic_info)
             THEN None
             ELSE IF symbol_type = "indicator"
             THEN [symbol_id |-> symbol_id,
                   indicator |-> << <<semantic_info.type, semantic_info.value>> >>]
             ELSE [symbol_id |-> symbol_id,
                   modifier |-> << <<semantic_info.type, semantic_info.value>> >>]

\* the loops of analyze_composition over the indicators and the modifiers:
\* the facts of the ids from position k on, appended to facts
RECURSIVE SemanticsLoop(_, _, _, _)
SemanticsLoop(ids, symbol_type, k, facts) ==
    IF k > Len(ids)
    THEN facts
    ELSE LET semantics == _extract_semantics(ids[k], symbol_type)
         IN  IF semantics # None
             THEN SemanticsLoop(ids, symbol_type, k + 1, Append(facts, semantics))
             ELSE SemanticsLoop(ids, symbol_type, k + 1, facts)

\* analyze_composition with the loop over the modifiers before the loop over
\* the indicators
analyze_composition_ModifiersFirst(composition, language) ==
    LET strings == [k \in 1..Len(composition) |-> str(composition[k])]
        classification == classify_composition(strings)
    IN  IF classification.errors # <<>>
        THEN [error |-> classification.errors[1], details |-> classification]
        ELSE [original_composition |-> strings,
              classifier |-> classification.classifier,
              classifier_info |->
                  IF classification.classifier # None
                  THEN _get_symbol_glosses(classification.classifier, language)
                  ELSE None,
              specifiers |-> classification.specifiers,
              specifier_info |->
                  [k \in 1..Len(classification.specifiers) |->
                      _get_symbol_glosses(classification.specifiers[k], language)],
              semantics |->
                  SemanticsLoop(classification.indicators, "indicator", 1,
                      SemanticsLoop(classification.modifiers, "modifier", 1, <<>>)),
              indicators |-> classification.indicators,
              modifiers |-> classification.modifiers]

\* analyze_composition without the check of the classification's errors
analyze_composition_NoErrorCheck(composition, language) ==
    LET strings == [k \in 1..Len(composition) |-> str(composition[k])]
        classification == classify_composition(strings)
    IN  [original_composition |-> strings,
         classifier |-> classification.classifier,
         classifier_info |->
             IF classification.classifier # None
             THEN _get_symbol_glosses(classification.classifier, language)
             ELSE None,
         specifiers |-> classification.specifiers,
         specifier_info |->
             [k \in 1..Len(classification.specifiers) |->
                 _get_symbol_glosses(classification.specifiers[k], language)],
         semantics |->
             SemanticsLoop(classification.modifiers, "modifier", 1,
                 SemanticsLoop(classification.indicators, "indicator", 1, <<>>)),
         indicators |-> classification.indicators,
         modifiers |-> classification.modifiers]

\* BlissAnalyzer.analyze_composition
analyze_composition(composition, language) ==
    LET strings == [k \in 1..Len(composition) |-> str(composition[k])]
        classification == classify_composition(strings)
    IN  IF classification.errors # <<>>
        THEN [error |-> classification.errors[1], details |-> classification]
        ELSE [original_composition |-> strings,
              classifier |-> classification.classifier,
              classifier_info |->
                  IF classification.classifier # None
                  THEN _get_symbol_glosses(classification.classifier, language)
                  ELSE None,
              specifiers |-> classification.specifiers,
              specifier_info |->
                  [k \in 1..Len(classification.specifiers) |->
                      _get_symbol_glosses(classification.specifiers[k], language)],
              semantics |->
                  SemanticsLoop(classification.modifiers, "modifier", 1,
                      SemanticsLoop(classification.indicators, "indicator", 1, <<>>)),
              indicators |-> classification.indicators,
              modifiers |-> classification.modifiers]

---------------------------------------------------------------------------
(* The calls *)

\* every sequence over S of length at most n
SeqsUpTo(S, n) == UNION {[1..k -> S] : k \in 0..n}

\* the tokens classify_composition is given
Tokens == {id14647, id14905, id24920, id9011, id8998, id12345, id15460,
           id99999, slash}

\* the sequence of test_classify_composition_with_rendering_markers
MarkedComposition ==
    <<id14647, slash, id14905, semicolon, id24920, slash, id9011>>

\* sequences with a token of a digit other than "0" to "9": on its own,
\* after a head, before an indicator and beside a rendering marker
NonAsciiDigitInputs ==
    {<<superscript_two>>, <<id14905, superscript_two>>, <<superscript_two, id9011>>,
     <<slash, superscript_two>>, <<extended_arabic_three>>,
     <<id14905, extended_arabic_three>>, <<extended_arabic_three, id9011>>}

ClassifyInputs ==
    SeqsUpTo(Tokens, MaxLen) \cup {MarkedComposition} \cup NonAsciiDigitInputs

\* the ids compose_with_modifiers is given: two heads, a modifier and an
\* indicator of the dictionary, and an id that is not in it
ComposeIds == {id14905, id24920, id14647, id9011, id99999}

\* the (specifier_ids, modifier_ids, indicator_ids) triples with at most n ids in all
IdLists(n) ==
    {t \in SeqsUpTo(ComposeIds, n) \X SeqsUpTo(ComposeIds, n) \X SeqsUpTo(ComposeIds, n) :
        Len(t[1]) + Len(t[2]) + Len(t[3]) <= n}
    \cup {<<<<s>>, <<m>>, <<i>>>> : s \in ComposeIds, m \in ComposeIds, i \in ComposeIds}

\* the glosses a specification names
ClassifierGlosses == {building, Building, byggnad, house, nothing}
SpecifierGlosses == {medicine, house, nothing}

\* the semantic items of a specification, each the sequence of the
\* <<key, value>> pairs of its dict
SemanticItems ==
    { << <<NUMBER, plural>> >>, << <<NUMBER, Plural>> >>, << <<number, plural>> >>,
      << <<number, Plural>> >>, << <<QUANTIFIER, many>> >>, << <<QUANTIFIER, much>> >>,
      << <<TENSE, past>> >>,
      << <<NUMBER, plural>>, <<QUANTIFIER, many>> >> }

\* the dict with the given classifier gloss (no "classifier" key when
\* has_classifier is FALSE) and the given lists (no key for an empty list:
\* semantic_spec.get reads an absent list as the empty one)
MakeSpec(has_classifier, classifier, specifiers, semantics) ==
    LET keys == (IF has_classifier THEN {"classifier"} ELSE {})
                \cup (IF specifiers # <<>> THEN {"specifiers"} ELSE {})
                \cup (IF semantics # <<>> THEN {"semantics"} ELSE {})
    IN  [k \in keys |->
            CASE k = "classifier" -> classifier
              [] k = "specifiers" -> specifiers
              [] k = "semantics" -> semantics]

\* the specification of the documented example (BlissEngine.compose_from_semantic)
ExampleSpec ==
    [classifier |-> building, specifiers |-> <<medicine>>,
     semantics |-> << << <<NUMBER, plural>> >>, << <<QUANTIFIER, many>> >> >>]

\* the (specifiers, semantics) pairs with at most n entries in all
ItemLists(n) ==
    {t \in SeqsUpTo(SpecifierGlosses, n) \X SeqsUpTo(SemanticItems, n) :
        Len(t[1]) + Len(t[2]) <= n}

SpecInputs ==
    {MakeSpec(h, c, t[1], t[2]) :
        h \in BOOLEAN, c \in ClassifierGlosses, t \in ItemLists(MaxItems)}
    \cup {ExampleSpec}

\* the elements of the compositions analyze_composition is given: ids as
\* text and as ints, an id that is not in the dictionary, a rendering marker
\* and a negative int
Elements ==
    {[str |-> id14647], [str |-> id14905], [str |-> id99999], [str |-> slash],
     [int |-> 24920], [int |-> 9011], [int |-> 15460], [int |-> 9004],
     [int |-> 0 - 1]}

\* the composition of the documented example (BlissEngine.analyze_composition)
ExampleComposition == <<[int |-> 14647], [int |-> 14905], [int |-> 24920], [int |-> 9011]>>

Compositions ==
    SeqsUpTo(Elements, MaxComp) \cup {ExampleComposition}
    \cup {[k \in 1..Len(ids) |-> [str |-> ids[k]]] : ids \in NonAsciiDigitInputs}

\* the language codes of the gloss lookups: one that only 14905 has glosses
\* for, besides English
Languages == {"en", "sv"}

\* the ids _extract_semantics is asked about: the keys of the two tables, a
\* dictionary symbol that is in neither and an id that is nowhere
ExtractIds == {id8998, id9011, id9004, id14647, id15460, id14905, id99999}

\* the glosses looked up on their own
LookupGlosses ==
    {building, Building, byggnad, gaard, GAARD, domos, DOMOS, house, House, medicine,
     clinic, many, much, plural, nothing}

\* the arguments BlissEngine is constructed with: [dict |-> order] stands for
\* the dictionary with its keys in that order, [str |-> s] for the text s and
\* [list |-> l] for the list l
ConstructorArgs ==
    {[dict |-> order] : order \in DictOrders}
        \cup {[str |-> not_a_dict], [list |-> <<>>]}

\* isinstance(x, dict)
isinstance_dict(x) == "dict" \in DOMAIN x

\* BlissEngine.__init__ without the isinstance check: the argument reaches
\* BlissComposer._build_reverse_lookups, whose loop reads bliss_dict[node_id]
\* for every element: for a character of a text this raises TypeError, and
\* over the empty list the loop does not run and an engine is built on it
__init___NoTypeCheck(arg) ==
    IF "str" \in DOMAIN arg /\ arg.str # <<>>
    THEN [raises |-> "TypeError"]
    ELSE IF "dict" \notin DOMAIN arg
    THEN [bliss_dict |-> <<>>,
          gloss_to_id |-> <<>>,
          semantic_path_to_id |-> <<>>,
          modifiers |-> Keys(MODIFIER_SEMANTICS),
          indicators |-> Keys(INDICATOR_SEMANTICS)]
    ELSE [bliss_dict |-> arg.dict,
          gloss_to_id |-> BuildGlossToId(arg.dict, 1, <<>>),
          semantic_path_to_id |-> BuildSemanticPathToId(arg.dict, 1, <<>>),
          modifiers |-> Keys(MODIFIER_SEMANTICS),
          indicators |-> Keys(INDICATOR_SEMANTICS)]

\* BlissEngine.__init__: the exception it raises, or the fields of the
\* engine, of its composer and of the classifiers (every SymbolClassifier
\* builds the same two sets from the keys of the tables)
__init__(arg) ==
    IF ~isinstance_dict(arg)
    THEN [raises |-> "TypeError"]
    ELSE [bliss_dict |-> arg.dict,
          gloss_to_id |-> BuildGlossToId(arg.dict, 1, <<>>),
          semantic_path_to_id |-> BuildSemanticPathToId(arg.dict, 1, <<>>),
          modifiers |-> Keys(MODIFIER_SEMANTICS),
          indicators |-> Keys(INDICATOR_SEMANTICS)]

\* no call of the second thread is under way or waiting to be collected
NoCall == [op |-> "idle", args |-> <<>>, result |-> <<>>, running |-> FALSE]

\* the constructor has run on one of its arguments: either it raised and
\* there is no engine, or the engine is built and about to be handed over
Init ==
    \E arg \in ConstructorArgs :
        LET engine == __init__(arg)
        IN  /\ tables = [indicator |-> INDICATOR_SEMANTICS, modifier |-> MODIFIER_SEMANTICS]
            /\ op = "__init__"
            /\ args = [bliss_dict |-> arg]
            /\ other = NoCall
            /\ IF "raises" \in DOMAIN engine
               THEN /\ result = engine
                    /\ bliss_dict = None
                    /\ gloss_to_id = None
                    /\ semantic_path_to_id = None
                    /\ modifiers = None
                    /\ indicators = None
               ELSE /\ result = None
                    /\ bliss_dict = engine.bliss_dict
                    /\ gloss_to_id = engine.gloss_to_id
                    /\ semantic_path_to_id = engine.semantic_path_to_id
                    /\ modifiers = engine.modifiers
                    /\ indicators = engine.indicators

\* the inputs a call of the first thread is explored on: all of them between
\* the calls of the second thread, the given examples while one is under
\* way or waiting to be collected
Inputs(all, examples) == IF other.op = "idle" THEN all ELSE examples

\* what the call of the given name returns, given its arguments, on the
\* engine as it is when the call reads it
Call(name, a) ==
    CASE name = "classify_composition" -> classify_composition(a.symbol_ids)
      [] name = "compose_with_ids" ->
             compose_with_ids(a.classifier_id, a.specifier_ids, a.modifier_ids,
                              a.indicator_ids)
      [] name = "compose_from_semantic" -> compose_from_semantic(a.semantic_spec)
      [] name = "_find_symbol_by_gloss" -> _find_symbol_by_gloss(a.gloss)
      [] name = "analyze_composition" -> analyze_composition(a.composition, a.language)
      [] name = "get_symbol_glosses" -> get_symbol_glosses(a.symbol_id, a.language)
      [] name = "_extract_semantics" -> _extract_semantics(a.symbol_id, a.symbol_type)
      [] name = "is_classifier" -> is_classifier(a.symbol_id)
      [] name = "is_modifier" -> is_modifier(a.symbol_id)
      [] name = "is_indicator" -> is_indicator(a.symbol_id)

\* BlissEngine.is_classifier, is_modifier, is_indicator
Predicates == {"is_classifier", "is_modifier", "is_indicator"}

\* the ids the predicates are asked about: a head, a modifier, an indicator
\* and an id that is not in the dictionary
PredicateIds == {id14905, id14647, id9011, id99999}

\* the calls of the second thread: the predicates, a gloss lookup that goes
\* through gloss_to_id and the scan, and a read of a table entry with a list
OtherCalls ==
    {[op |-> p, args |-> [symbol_id |-> s]] : p \in Predicates, s \in PredicateIds}
    \cup {[op |-> "_find_symbol_by_gloss", args |-> [gloss |-> House]],
          [op |-> "_extract_semantics",
           args |-> [symbol_id |-> id15460, symbol_type |-> "modifier"]]}

\* SymbolClassifier.classify_composition(symbol_ids)
ClassifyComposition ==
    /\ op = "idle"
    /\ \E symbol_ids \in Inputs(ClassifyInputs, {MarkedComposition}) :
        /\ op' = "classify_composition"
        /\ args' = [symbol_ids |-> symbol_ids, composed_from |-> <<>>]
        /\ result' = classify_composition(symbol_ids)
    /\ UNCHANGED <<bliss_dict, gloss_to_id, semantic_path_to_id, modifiers, indicators, tables, other>>

\* BlissEngine.compose_with_ids(classifier_id, specifier_ids, modifier_ids, indicator_ids)
ComposeWithIds ==
    /\ op = "idle"
    /\ \E classifier_id \in Inputs(ComposeIds, {id14905}),
          lists \in Inputs(IdLists(MaxIds), {<<<<id24920>>, <<id14647>>, <<id9011>>>>}) :
        /\ op' = "compose_with_ids"
        /\ args' = [classifier_id |-> classifier_id, specifier_ids |-> lists[1],
                    modifier_ids |-> lists[2], indicator_ids |-> lists[3]]
        /\ result' = compose_with_ids(classifier_id, lists[1], lists[2], lists[3])
    /\ UNCHANGED <<bliss_dict, gloss_to_id, semantic_path_to_id, modifiers, indicators, tables, other>>

\* BlissEngine.compose_from_semantic(semantic_spec)
ComposeFromSemantic ==
    /\ op = "idle"
    /\ \E semantic_spec \in Inputs(SpecInputs, {ExampleSpec}) :
        /\ op' = "compose_from_semantic"
        /\ args' = [semantic_spec |-> semantic_spec]
        /\ result' = compose_from_semantic(semantic_spec)
    /\ UNCHANGED <<bliss_dict, gloss_to_id, semantic_path_to_id, modifiers, indicators, tables, other>>

\* the caller classifies the composition compose_with_ids returned
ClassifyComposed ==
    /\ op = "compose_with_ids"
    /\ "error" \notin DOMAIN result
    /\ op' = "classify_composition"
    /\ args' = [symbol_ids |-> result.composition, composed_from |-> <<args>>]
    /\ result' = classify_composition(result.composition)
    /\ UNCHANGED <<bliss_dict, gloss_to_id, semantic_path_to_id, modifiers, indicators, tables, other>>

\* _find_symbol_by_gloss that enters what the scan found into gloss_to_id
FindSymbolByGloss_Memoising ==
    /\ op = "idle"
    /\ \E gloss \in LookupGlosses :
        /\ op' = "_find_symbol_by_gloss"
        /\ args' = [gloss |-> gloss]
        /\ result' = _find_symbol_by_gloss(gloss)
        /\ gloss_to_id' =
               IF gloss \notin DOMAIN gloss_to_id /\ _find_symbol_by_gloss(gloss) # None
               THEN gloss_to_id @@ (gloss :> _find_symbol_by_gloss(gloss))
               ELSE gloss_to_id
    /\ UNCHANGED <<bliss_dict, semantic_path_to_id, modifiers, indicators, tables, other>>

\* BlissComposer._find_symbol_by_gloss(gloss)
FindSymbolByGloss ==
    /\ op = "idle"
    /\ \E gloss \in LookupGlosses :
        /\ op' = "_find_symbol_by_gloss"
        /\ args' = [gloss |-> gloss]
        /\ result' = _find_symbol_by_gloss(gloss)
    /\ UNCHANGED <<bliss_dict, gloss_to_id, semantic_path_to_id, modifiers, indicators, tables, other>>

\* BlissEngine.analyze_composition(composition, language)
AnalyzeComposition ==
    /\ op = "idle"
    /\ \E composition \in Inputs(Compositions, {ExampleComposition}),
          language \in Languages :
        /\ op' = "analyze_composition"
        /\ args' = [composition |-> composition, language |-> language]
        /\ result' = analyze_composition(composition, language)
    /\ UNCHANGED <<bliss_dict, gloss_to_id, semantic_path_to_id, modifiers, indicators, tables, other>>

\* BlissEngine.get_symbol_glosses(symbol_id, language)
GetSymbolGlosses ==
    /\ op = "idle"
    /\ \E symbol_id \in DOMAIN bliss_nodes \cup {id99999}, language \in Languages :
        /\ op' = "get_symbol_glosses"
        /\ args' = [symbol_id |-> symbol_id, language |-> language]
        /\ result' = get_symbol_glosses(symbol_id, language)
    /\ UNCHANGED <<bliss_dict, gloss_to_id, semantic_path_to_id, modifiers, indicators, tables, other>>

\* BlissAnalyzer._extract_semantics(symbol_id, symbol_type)
ExtractSemantics ==
    /\ op = "idle"
    /\ \E symbol_id \in ExtractIds, symbol_type \in {"indicator", "modifier"} :
        /\ op' = "_extract_semantics"
        /\ args' = [symbol_id |-> symbol_id, symbol_type |-> symbol_type]
        /\ result' = _extract_semantics(symbol_id, symbol_type)
    /\ UNCHANGED <<bliss_dict, gloss_to_id, semantic_path_to_id, modifiers, indicators, tables, other>>

\* the table with the list under list_key of the entry of symbol_id emptied
ClearList(table, symbol_id, list_key) ==
    [k \in 1..Len(table) |->
        IF table[k][1] = symbol_id
        THEN <<symbol_id, [table[k][2] EXCEPT ![list_key] = <<>>]>>
        ELSE table[k]]

\* whether the second thread holds a fact that _extract_semantics returned
\* for the same entry of the same table: its list under key is then the same
\* list object as the first thread's
HoldsSameList(key) ==
    /\ other.op = "_extract_semantics"
    /\ ~other.running
    /\ other.args = args
    /\ other.result # None
    /\ key \in DOMAIN other.result

\* The caller empties the alternatives or the combined list of the fact that
\* _extract_semantics returned (fact["alternatives"].clear()).  The list is
\* semantic_info["or"] or semantic_info["and"] itself, so the entry of the
\* table loses its pairs with it, and so does the fact of the same entry that
\* the second thread holds.
ModifyResult ==
    /\ op = "_extract_semantics"
    /\ result # None
    /\ \E key \in {"alternatives", "combined"} :
        /\ key \in DOMAIN result
        /\ result[key] # <<>>
        /\ result' = [result EXCEPT ![key] = <<>>]
        /\ tables' = [tables EXCEPT ![args.symbol_type] =
               ClearList(@, args.symbol_id,
                         IF key = "alternatives" THEN "or" ELSE "and")]
        /\ other' = IF HoldsSameList(key)
                    THEN [other EXCEPT !.result[key] = <<>>]
                    ELSE other
    /\ op' = "modify_result"
    /\ UNCHANGED <<bliss_dict, gloss_to_id, semantic_path_to_id, modifiers, indicators, args>>

\* BlissEngine.is_classifier(symbol_id), is_modifier(symbol_id), is_indicator(symbol_id)
PredicateCall ==
    /\ op = "idle"
    /\ \E name \in Predicates, symbol_id \in PredicateIds :
        /\ op' = name
        /\ args' = [symbol_id |-> symbol_id]
        /\ result' = Call(name, [symbol_id |-> symbol_id])
    /\ UNCHANGED <<bliss_dict, gloss_to_id, semantic_path_to_id, modifiers, indicators, tables, other>>

\* A second thread enters one of its calls.  The calls of the first thread
\* run as whole steps, so the second thread's call is split instead: it is
\* entered here and reads the engine in OtherReturn, and every call the
\* first thread makes in between runs inside it.
OtherCall ==
    /\ op = "idle"
    /\ other.op = "idle"
    /\ \E call \in OtherCalls :
        other' = [op |-> call.op, args |-> call.args, result |-> <<>>, running |-> TRUE]
    /\ UNCHANGED <<bliss_dict, gloss_to_id, semantic_path_to_id, modifiers, indicators, tables, op, args, result>>

\* the second thread's call reads the engine and returns
OtherReturn ==
    /\ other.running
    /\ other' = [other EXCEPT !.result = Call(other.op, other.args), !.running = FALSE]
    /\ UNCHANGED <<bliss_dict, gloss_to_id, semantic_path_to_id, modifiers, indicators, tables, op, args, result>>

\* the second thread has its result and is between calls again
OtherDone ==
    /\ other.op # "idle"
    /\ ~other.running
    /\ other' = NoCall
    /\ UNCHANGED <<bliss_dict, gloss_to_id, semantic_path_to_id, modifiers, indicators, tables, op, args, result>>

\* the caller has the result; the engine keeps nothing of the call.  After a
\* constructor that raised there is no engine to call.
Return ==
    /\ op # "idle"
    /\ op = "__init__" => "raises" \notin DOMAIN result
    /\ op' = "idle"
    /\ args' = <<>>
    /\ result' = <<>>
    /\ UNCHANGED <<bliss_dict, gloss_to_id, semantic_path_to_id, modifiers, indicators, tables, other>>

Next ==
    \/ ClassifyComposition
    \/ ComposeWithIds
    \/ ComposeFromSemantic
    \/ ClassifyComposed
    \/ FindSymbolByGloss
    \/ AnalyzeComposition
    \/ GetSymbolGlosses
    \/ ExtractSemantics
    \/ PredicateCall
    \/ OtherCall
    \/ OtherReturn
    \/ OtherDone
    \/ ModifyResult
    \/ Return

Spec == Init /\ [][Next]_vars

\* the calls of the two threads alone: no caller touches a result
NextCalls ==
    \/ ClassifyComposition
    \/ ComposeWithIds
    \/ ComposeFromSemantic
    \/ ClassifyComposed
    \/ FindSymbolByGloss
    \/ AnalyzeComposition
    \/ GetSymbolGlosses
    \/ ExtractSemantics
    \/ PredicateCall
    \/ OtherCall
    \/ OtherReturn
    \/ OtherDone
    \/ Return

SpecCalls == Init /\ [][NextCalls]_vars

---------------------------------------------------------------------------
(* Properties *)

\* the elements of a sequence
Range(s) == {s[i] : i \in 1..Len(s)}

Classified == op = "classify_composition"

\* the filtered valid-id subsequence of the classified input
Filtered == ValidIds(args.symbol_ids)

\* neither a modifier nor an indicator
Plain(s) == ~is_modifier(s) /\ ~is_indicator(s)

\* C1 (Indicator precedence): when the filtered input is [h, s, ind], or
\* [m, h, s, ind] with m a modifier, where h is head-bearing, s is plain and
\* ind is an indicator, the classifier is h, the modifiers are [m] (or []),
\* the specifiers are [s] and the indicators are [ind].
C1_IndicatorPrecedence ==
    Classified =>
        LET v == Filtered
        IN  /\ (/\ Len(v) = 3
                /\ is_classifier(v[1]) /\ Plain(v[2]) /\ is_indicator(v[3]))
               => /\ result.classifier = v[1]
                  /\ result.modifiers = <<>>
                  /\ result.specifiers = <<v[2]>>
                  /\ result.indicators = <<v[3]>>
            /\ (/\ Len(v) = 4
                /\ is_modifier(v[1]) /\ is_classifier(v[2])
                /\ Plain(v[3]) /\ is_indicator(v[4]))
               => /\ result.classifier = v[2]
                  /\ result.modifiers = <<v[1]>>
                  /\ result.specifiers = <<v[3]>>
                  /\ result.indicators = <<v[4]>>

\* C2 (Round trip): classifying the composition compose_with_ids made from a
\* head-bearing C, a plain S other than C, a modifier M and an indicator I of
\* the dictionary gives the classifier C, with S among the specifiers, M among the modifiers
\* and I among the indicators.
C2_RoundTrip ==
    (Classified /\ args.composed_from # <<>>) =>
        LET a == args.composed_from[1]
        IN  (/\ Len(a.specifier_ids) = 1
             /\ Len(a.modifier_ids) = 1
             /\ Len(a.indicator_ids) = 1
             /\ {a.classifier_id, a.specifier_ids[1], a.modifier_ids[1],
                 a.indicator_ids[1]} \subseteq DOMAIN bliss_nodes
             /\ a.classifier_id # a.specifier_ids[1]
             /\ is_classifier(a.classifier_id)
             /\ Plain(a.specifier_ids[1])
             /\ is_modifier(a.modifier_ids[1])
             /\ is_indicator(a.indicator_ids[1]))
            => /\ result.classifier = a.classifier_id
               /\ a.specifier_ids[1] \in Range(result.specifiers)
               /\ a.modifier_ids[1] \in Range(result.modifiers)
               /\ a.indicator_ids[1] \in Range(result.indicators)

\* the ids of the classifier bucket
ClassifierIds(r) == IF r.classifier = None THEN {} ELSE {r.classifier}

\* C3 (Role disjointness): no symbol id is in more than one of the buckets
\* classifier, specifiers, indicators, modifiers of a classification.
C3_RoleDisjoint ==
    Classified =>
        /\ ClassifierIds(result) \cap Range(result.specifiers) = {}
        /\ ClassifierIds(result) \cap Range(result.indicators) = {}
        /\ ClassifierIds(result) \cap Range(result.modifiers) = {}
        /\ Range(result.specifiers) \cap Range(result.indicators) = {}
        /\ Range(result.specifiers) \cap Range(result.modifiers) = {}
        /\ Range(result.indicators) \cap Range(result.modifiers) = {}

\* the ids a classification gives a role to
Assigned(r) ==
    ClassifierIds(r) \cup Range(r.specifiers) \cup Range(r.indicators)
        \cup Range(r.modifiers)

\* C4 as stated (Role coverage): for every input, the ids given a role are
\* exactly the ids of the filtered input.
C4_RoleCoverage_Original ==
    Classified => Assigned(result) = Range(Filtered)

\* C4 as amended: for every input whose first filtered id is not an indicator,
\* the ids given a role are exactly the ids of the filtered input.
C4_RoleCoverage ==
    (Classified /\ ~(Filtered # <<>> /\ is_indicator(Filtered[1])))
        => Assigned(result) = Range(Filtered)

\* C4: a classification that fills all four buckets from four different ids
C4_Witness ==
    /\ Classified
    /\ Cardinality(Range(Filtered)) = 4
    /\ result.classifier # None
    /\ result.specifiers # <<>>
    /\ result.indicators # <<>>
    /\ result.modifiers # <<>>

\* the rendering markers of a composition
Markers == {slash, semicolon}

\* a token sequence without its rendering markers
WithoutMarkers(symbol_ids) == SelectSeq(symbol_ids, LAMBDA s : s \notin Markers)

\* C5 (Marker invariance): the classification of a sequence is, in all five
\* fields, the classification of the sequence without its rendering markers,
\* and no marker is in any bucket.
C5_MarkerInvariance ==
    Classified =>
        /\ result = classify_composition(WithoutMarkers(args.symbol_ids))
        /\ Assigned(result) \cap Markers = {}

\* C5: the marked composition of the test, classified
C5_Witness ==
    /\ Classified
    /\ args.symbol_ids = MarkedComposition
    /\ result.classifier # None
    /\ result.errors = <<>>

\* C6 (First-indicator error): when the first filtered id is an indicator, the
\* errors are not empty, the classifier is null and the three lists are empty.
C6_FirstIndicatorError ==
    (Classified /\ Filtered # <<>> /\ is_indicator(Filtered[1])) =>
        /\ result.errors # <<>>
        /\ result.classifier = None
        /\ result.specifiers = <<>>
        /\ result.indicators = <<>>
        /\ result.modifiers = <<>>

\* C6: an indicator first, followed by a head, a modifier and an indicator
C6_Witness ==
    /\ Classified
    /\ Len(Filtered) = 4
    /\ is_indicator(Filtered[1])
    /\ is_classifier(Filtered[2])
    /\ is_modifier(Filtered[3])
    /\ is_indicator(Filtered[4])
    /\ result.errors # <<>>

\* the ids of the specifier glosses that resolve, in the order given
ResolvedSpecifiers(semantic_spec) ==
    LET glosses == Get(semantic_spec, "specifiers", <<>>)
    IN  SelectSeq([k \in 1..Len(glosses) |-> _find_symbol_by_gloss(glosses[k])],
                  LAMBDA id : id # None)

\* the ids of the single-key semantic items that resolve, in the order given
ResolvedSemantics(semantic_spec) ==
    LET items == Get(semantic_spec, "semantics", <<>>)
    IN  SelectSeq([k \in 1..Len(items) |->
                      IF Len(items[k]) = 1
                      THEN _find_semantic_symbol(items[k][1][1], items[k][1][2])
                      ELSE None],
                  LAMBDA id : id # None)

\* C7 (composeFromSpec output order): a successful composition is the
\* classifier id, then the resolved specifier ids in the order given, then the
\* resolved semantic symbol ids in the order given; the documented
\* specification gives ["14905", "24920", "9011", "14647"] and no warning.
C7_SpecOrder ==
    (op = "compose_from_semantic" /\ "composition" \in DOMAIN result) =>
        /\ result.composition =
              <<_find_symbol_by_gloss(args.semantic_spec.classifier)>>
                  \o ResolvedSpecifiers(args.semantic_spec)
                  \o ResolvedSemantics(args.semantic_spec)
        /\ args.semantic_spec = ExampleSpec =>
              /\ result.composition = <<id14905, id24920, id9011, id14647>>
              /\ result.warnings = <<>>

\* C7: the documented specification, composed
C7_Witness ==
    /\ op = "compose_from_semantic"
    /\ args.semantic_spec = ExampleSpec
    /\ "composition" \in DOMAIN result
    /\ Len(result.composition) = 4

\* C8 (documented example of compose_from_semantic): the documented
\* specification gives ["14647", "14905", "24920", "9011"], the modifier
\* before the classifier and the indicator last.
C8_DocumentedExample ==
    (op = "compose_from_semantic" /\ args.semantic_spec = ExampleSpec) =>
        /\ "composition" \in DOMAIN result
        /\ result.composition = <<id14647, id14905, id24920, id9011>>

\* C9 (composeWithIds fatal classifier): when the classifier id is not in the
\* dictionary, the result has an error and its composition holds no id.
C9_FatalClassifier ==
    (op = "compose_with_ids" /\ args.classifier_id \notin DOMAIN bliss_nodes) =>
        /\ "error" \in DOMAIN result
        /\ result.composition = <<>>

\* the ids of a list that are in the dictionary, in the order given
Present(ids) == SelectSeq(ids, LAMBDA id : id \in DOMAIN bliss_nodes)

\* C10 (composeWithIds output order): when the classifier id is in the
\* dictionary, the composition is the present modifiers, the classifier, the
\* present specifiers and the present indicators, each list in the order
\* given; each absent id gives one warning and every id of the composition is
\* a dictionary key.
C10_IdsOrder ==
    (op = "compose_with_ids" /\ args.classifier_id \in DOMAIN bliss_nodes) =>
        /\ "error" \notin DOMAIN result
        /\ result.composition =
              Present(args.modifier_ids) \o <<args.classifier_id>>
                  \o Present(args.specifier_ids) \o Present(args.indicator_ids)
        /\ Len(result.warnings) =
              (Len(args.modifier_ids) - Len(Present(args.modifier_ids)))
              + (Len(args.specifier_ids) - Len(Present(args.specifier_ids)))
              + (Len(args.indicator_ids) - Len(Present(args.indicator_ids)))
        /\ Range(result.composition) \subseteq DOMAIN bliss_nodes

\* C10: a modifier, a specifier and an absent indicator around the classifier
C10_Witness ==
    /\ op = "compose_with_ids"
    /\ args.classifier_id = id14905
    /\ args.modifier_ids = <<id14647>>
    /\ args.specifier_ids = <<id24920>>
    /\ args.indicator_ids = <<id99999>>
    /\ result.composition = <<id14647, id14905, id24920>>
    /\ Len(result.warnings) = 1

\* C11 (composeFromSpec fatal classifier): a specification without a
\* classifier key gives the missing-field error, and one whose classifier gloss
\* resolves to no symbol gives the not-found error; in both cases the result
\* has an error and no composition id.
C11_SpecFatalClassifier ==
    op = "compose_from_semantic" =>
        LET semantic_spec == args.semantic_spec
        IN  /\ "classifier" \notin DOMAIN semantic_spec =>
                /\ "error" \in DOMAIN result
                /\ result.error.msg = "Missing required field: classifier"
                /\ "composition" \notin DOMAIN result
                /\ "details" \notin DOMAIN result
            /\ (/\ "classifier" \in DOMAIN semantic_spec
                /\ _find_symbol_by_gloss(semantic_spec.classifier) = None) =>
                /\ "error" \in DOMAIN result
                /\ result.error = Msg("Classifier not found", semantic_spec.classifier)
                /\ "composition" \notin DOMAIN result
                /\ result.details.composition = <<>>

\* C11: a classifier gloss no symbol has, with a specifier that resolves and a
\* semantic item that resolves
C11_Witness ==
    /\ op = "compose_from_semantic"
    /\ "classifier" \in DOMAIN args.semantic_spec
    /\ args.semantic_spec.classifier = nothing
    /\ Get(args.semantic_spec, "specifiers", <<>>) = <<medicine>>
    /\ Get(args.semantic_spec, "semantics", <<>>) = << << <<NUMBER, plural>> >> >>
    /\ "error" \in DOMAIN result

\* the specification with the value of every single-key semantic item lowered
LowerValues(semantic_spec) ==
    IF "semantics" \notin DOMAIN semantic_spec
    THEN semantic_spec
    ELSE [semantic_spec EXCEPT !.semantics =
            [k \in 1..Len(@) |->
                IF Len(@[k]) = 1 THEN << <<@[k][1][1], lower(@[k][1][2])>> >> ELSE @[k]]]

\* C12 as stated (case-insensitive semantic matching): a specification returns
\* the same composition and the same warnings as the one whose semantic values
\* differ from it only by letter case.
C12_CaseInsensitive_Original ==
    (op = "compose_from_semantic" /\ "composition" \in DOMAIN result) =>
        LET lowered == compose_from_semantic_spec(LowerValues(args.semantic_spec))
        IN  /\ result.composition = lowered.composition
            /\ result.warnings = lowered.warnings

\* C12 (case-insensitive semantic matching), amended: a specification returns
\* the same composition, and warnings of the same number and kinds in the same
\* order, as the one whose semantic values differ from it only by letter case;
\* only the warning of an unresolved item differs, quoting the value as given.
C12_CaseInsensitive ==
    (op = "compose_from_semantic" /\ "composition" \in DOMAIN result) =>
        LET lowered == compose_from_semantic_spec(LowerValues(args.semantic_spec))
        IN  /\ result.composition = lowered.composition
            /\ Len(result.warnings) = Len(lowered.warnings)
            /\ \A k \in 1..Len(result.warnings) :
                /\ result.warnings[k].msg = lowered.warnings[k].msg
                /\ result.warnings[k].msg # "No symbol found for semantic" =>
                       result.warnings[k] = lowered.warnings[k]
                /\ result.warnings[k].msg = "No symbol found for semantic" =>
                       \E item \in Range(args.semantic_spec.semantics) :
                           /\ Len(item) = 1
                           /\ result.warnings[k].arg =
                                  item[1][1] \o <<":">> \o item[1][2]
                           /\ lowered.warnings[k].arg =
                                  item[1][1] \o <<":">> \o lower(item[1][2])

\* C12: a resolved and an unresolved semantic item, each with a capital letter
\* in its value
C12_Witness ==
    /\ op = "compose_from_semantic"
    /\ "semantics" \in DOMAIN args.semantic_spec
    /\ args.semantic_spec.semantics = << << <<NUMBER, Plural>> >>, << <<number, Plural>> >> >>
    /\ "composition" \in DOMAIN result
    /\ id9011 \in Range(result.composition)
    /\ Len(result.warnings) = 1

\* the dictionary positions of the symbols with the English gloss g
Holders(g) ==
    {i \in 1..Len(bliss_dict) :
        g \in Range(Get(Get(bliss_nodes[bliss_dict[i]], "glosses", <<>>), "en", <<>>))}

\* the dictionary positions of the characters
Characters ==
    {i \in 1..Len(bliss_dict) : Get(bliss_nodes[bliss_dict[i]], "isCharacter", FALSE)}

\* the least position of a non-empty set of positions
First(positions) == CHOOSE i \in positions : \A j \in positions : i <= j

\* C13 (gloss preference): a lookup of an English gloss that a character has
\* returns the character, wherever the composed words with the gloss stand in
\* the dictionary; among the symbols of the same kind the earliest in
\* dictionary order is returned.
C13_GlossPreference ==
    (op = "_find_symbol_by_gloss" /\ Holders(args.gloss) # {}) =>
        IF Holders(args.gloss) \cap Characters # {}
        THEN result = bliss_dict[First(Holders(args.gloss) \cap Characters)]
        ELSE result = bliss_dict[First(Holders(args.gloss))]

\* C13: the gloss of a character and a composed word, the composed word
\* standing first in the dictionary
C13_Witness ==
    /\ op = "_find_symbol_by_gloss"
    /\ \E i \in Holders(args.gloss) \cap Characters :
        \E j \in Holders(args.gloss) \ Characters : j < i
    /\ result # None

\* the positions (from 1) of the indicators of the filtered input
IndicatorPositions == {i \in 1..Len(Filtered) : is_indicator(Filtered[i])}

\* the entries of seq that are in the set ids, in order
Project(seq, ids) == SelectSeq(seq, LAMBDA s : s \in ids)

\* C14 (indicator-anchored rule): when the first indicator of the filtered
\* input is at position i > 1 (counted from 1), the classifier is the id at
\* position i-1 whatever it is, the ids before it are the first modifiers in
\* order, every id from position i on is an indicator if it is one, else a
\* modifier if it is one, else a specifier, and there is no error.
C14_IndicatorAnchored ==
    (Classified /\ IndicatorPositions # {} /\ First(IndicatorPositions) > 1) =>
        LET v == Filtered
            i == First(IndicatorPositions)
            rest == SubSeq(v, i, Len(v))
        IN  /\ result.classifier = v[i - 1]
            /\ result.indicators = Project(rest, indicators)
            /\ result.modifiers =
                   SubSeq(v, 1, i - 2) \o Project(rest, modifiers \ indicators)
            /\ result.specifiers =
                   Project(rest, Range(rest) \ (modifiers \cup indicators))
            /\ result.errors = <<>>

\* C14: the first indicator stands third or later, the id before it is a
\* modifier or is not in the dictionary, and a modifier follows the indicator
C14_Witness ==
    /\ Classified
    /\ IndicatorPositions # {}
    /\ First(IndicatorPositions) > 2
    /\ \/ is_modifier(result.classifier)
       \/ result.classifier \notin DOMAIN bliss_nodes
    /\ \E k \in First(IndicatorPositions)..Len(Filtered) : is_modifier(Filtered[k])
    /\ Len(result.modifiers) >= 2

\* the sequence of test_classify_composition
TestComposition == <<id14647, id14905, id24920, id9011>>

\* C15 (test-asserted classification): for [14647, 14905, 24920, 9011], with
\* or without rendering markers, the classifier is "14647", "14905" is among
\* the specifiers, "9011" among the indicators and there is no error.
C15_TestClassification ==
    (Classified /\ Filtered = TestComposition) =>
        /\ result.classifier = id14647
        /\ id14905 \in Range(result.specifiers)
        /\ id9011 \in Range(result.indicators)
        /\ result.errors = <<>>

\* the positions (from 1) of the head-bearing ids of the filtered input that
\* are not modifiers
HeadPositions ==
    {i \in 1..Len(Filtered) : ~is_modifier(Filtered[i]) /\ is_classifier(Filtered[i])}

\* the ids of seq that are not modifiers, in order
NonModifiers(seq) == SelectSeq(seq, LAMBDA s : ~is_modifier(s))

\* C16 (part-of-speech rule): when the filtered input has ids but no indicator,
\* the modifiers are its ids of MODIFIER_SEMANTICS in order, whatever their
\* part of speech; the classifier is the first head-bearing id among the
\* others and every other non-modifier id, a later head-bearing one included,
\* is a specifier, in order.  Without a head-bearing id the specifiers are the
\* non-modifier ids, less the first id when the fallback made it the classifier.
C16_PosRule ==
    (Classified /\ Filtered # <<>> /\ IndicatorPositions = {}) =>
        LET v == Filtered
        IN  /\ result.modifiers = Project(v, modifiers)
            /\ result.indicators = <<>>
            /\ HeadPositions # {} =>
                LET h == First(HeadPositions)
                IN  /\ result.classifier = v[h]
                    /\ result.specifiers =
                           NonModifiers(SubSeq(v, 1, h - 1) \o SubSeq(v, h + 1, Len(v)))
                    /\ result.errors = <<>>
            /\ HeadPositions = {} =>
                /\ result.classifier \in {None, v[1]}
                /\ result.specifiers =
                       SelectSeq(NonModifiers(v), LAMBDA s : s # result.classifier)

\* C16: no indicator, a head-bearing modifier before the first head, a second
\* head and a satellite after it
C16_Witness ==
    /\ Classified
    /\ Filtered # <<>>
    /\ IndicatorPositions = {}
    /\ HeadPositions # {}
    /\ \E k \in 1..(First(HeadPositions) - 1) :
        is_modifier(Filtered[k]) /\ is_classifier(Filtered[k])
    /\ Len(result.specifiers) = 2
    /\ \E k \in 1..2 : is_classifier(result.specifiers[k])
    /\ \E k \in 1..2 : ~is_classifier(result.specifiers[k])

\* C17 (all-satellite fallback): with ids but no indicator and no head-bearing
\* id outside the modifiers, the first id becomes the classifier and is not a
\* specifier when it is in the dictionary with a grey or white part of speech;
\* when it is in the dictionary with another part of speech the only error is
\* "No classifier found in composition", when it is not in the dictionary the
\* only error is "Symbol <id> not found in knowledge graph", and in both error
\* cases the classifier is null.
C17_SatelliteFallback ==
    (Classified /\ Filtered # <<>> /\ IndicatorPositions = {} /\ HeadPositions = {}) =>
        LET first_id == Filtered[1]
        IN  IF first_id \notin DOMAIN bliss_nodes
            THEN /\ result.classifier = None
                 /\ result.errors = <<Msg("Symbol not found in knowledge graph", first_id)>>
            ELSE IF bliss_nodes[first_id].pos \in {"GREY", "WHITE"}
            THEN /\ result.classifier = first_id
                 /\ first_id \notin Range(result.specifiers)
                 /\ result.errors = <<>>
            ELSE /\ result.classifier = None
                 /\ result.errors = <<Msg("No classifier found in composition", None)>>

\* C17: a grey first id that is no modifier, promoted from the specifiers,
\* with another specifier after it
C17_Witness ==
    /\ Classified
    /\ Filtered # <<>>
    /\ IndicatorPositions = {}
    /\ HeadPositions = {}
    /\ Filtered[1] \in DOMAIN bliss_nodes
    /\ ~is_modifier(Filtered[1])
    /\ result.classifier = Filtered[1]
    /\ result.specifiers # <<>>

Analyzed == op = "analyze_composition"

\* the texts of the elements of the analyzed composition
Strings == [k \in 1..Len(args.composition) |-> str(args.composition[k])]

\* the classification of an input without a valid id
NoValidIds ==
    [classifier |-> None, specifiers |-> <<>>, indicators |-> <<>>, modifiers |-> <<>>,
     errors |-> <<Msg("No valid symbol IDs found in composition", None)>>]

\* C18 (no valid ids): classifying an input that is empty or has no numeric
\* token gives a null classifier, empty specifiers, indicators and modifiers
\* and the one error "No valid symbol IDs found in composition"; analyzing
\* such a composition gives a result with that error and this classification.
C18_NoValidIds ==
    /\ (Classified /\ \A k \in 1..Len(args.symbol_ids) : ~isdigit(args.symbol_ids[k])) =>
           result = NoValidIds
    /\ (Analyzed /\ \A k \in 1..Len(Strings) : ~isdigit(Strings[k])) =>
           /\ DOMAIN result = {"error", "details"}
           /\ result.error = Msg("No valid symbol IDs found in composition", None)
           /\ result.details = NoValidIds

\* C18: the analysis of a composition of a rendering marker and a negative int
C18_Witness ==
    /\ Analyzed
    /\ args.composition = <<[str |-> slash], [int |-> 0 - 1]>>
    /\ "error" \in DOMAIN result

\* the number of entries of seq that satisfy Test
Count(seq, Test(_)) == Len(SelectSeq(seq, Test))

\* the number of warnings of the result with the given message
Warnings(text) == Count(result.warnings, LAMBDA w : w.msg = text)

\* C19 (composeFromSpec advisory failures): when the classifier gloss resolves,
\* the result is no error; it has one "Specifier not found" warning for every
\* specifier gloss that resolves to no symbol, one "No symbol found for
\* semantic" warning for every single-key semantic item that resolves to no
\* symbol and one "Complex semantic spec not fully supported" warning for
\* every item with more than one key, and no other warning; the composition
\* ids and the warnings together are as many as the classifier, the specifiers
\* and the semantic items.
C19_AdvisoryFailures ==
    (/\ op = "compose_from_semantic"
     /\ "classifier" \in DOMAIN args.semantic_spec
     /\ _find_symbol_by_gloss(args.semantic_spec.classifier) # None) =>
        LET specifiers == Get(args.semantic_spec, "specifiers", <<>>)
            semantics == Get(args.semantic_spec, "semantics", <<>>)
        IN  /\ "error" \notin DOMAIN result
            /\ result.errors = <<>>
            /\ Warnings("Specifier not found") =
                   Count(specifiers, LAMBDA g : _find_symbol_by_gloss(g) = None)
            /\ Warnings("No symbol found for semantic") =
                   Count(semantics, LAMBDA item :
                       /\ Len(item) = 1
                       /\ _find_semantic_symbol(item[1][1], item[1][2]) = None)
            /\ Warnings("Complex semantic spec not fully supported") =
                   Count(semantics, LAMBDA item : Len(item) # 1)
            /\ Len(result.warnings) =
                   Warnings("Specifier not found")
                   + Warnings("No symbol found for semantic")
                   + Warnings("Complex semantic spec not fully supported")
            /\ Len(result.composition) + Len(result.warnings) =
                   1 + Len(specifiers) + Len(semantics)

\* C19: a resolved classifier with a specifier gloss no symbol has and a
\* semantic item of two keys
C19_Witness ==
    /\ op = "compose_from_semantic"
    /\ "composition" \in DOMAIN result
    /\ Get(args.semantic_spec, "specifiers", <<>>) = <<nothing>>
    /\ Get(args.semantic_spec, "semantics", <<>>) =
           << << <<NUMBER, plural>>, <<QUANTIFIER, many>> >> >>
    /\ Len(result.composition) = 1
    /\ Len(result.warnings) = 2

\* whether a record of _get_symbol_glosses is the placeholder gloss list
Placeholder(info) ==
    /\ "error" \notin DOMAIN info
    /\ "gloss" \in DOMAIN info
    /\ info.gloss = <<unknown>>

\* C20 (unknown symbol in gloss lookup): the gloss lookup of a symbol id that
\* is not in the dictionary, for the classifier or a specifier of an analyzed
\* composition or on its own, gives the gloss list ["(unknown)"] and no error
\* record.
C20_UnknownPlaceholder ==
    /\ (Analyzed /\ "error" \notin DOMAIN result) =>
           /\ result.classifier \notin DOMAIN bliss_nodes =>
                  Placeholder(result.classifier_info)
           /\ \A k \in 1..Len(result.specifiers) :
                  result.specifiers[k] \notin DOMAIN bliss_nodes =>
                      Placeholder(result.specifier_info[k])
    /\ (op = "get_symbol_glosses" /\ args.symbol_id \notin DOMAIN bliss_nodes) =>
           /\ "error" \notin DOMAIN result
           /\ result.glosses = <<unknown>>

\* the gloss list of a dictionary symbol in a language: the list of that
\* language when the symbol has one, else its English list
GlossesIn(symbol_id, language) ==
    IF language \in DOMAIN bliss_nodes[symbol_id].glosses
    THEN bliss_nodes[symbol_id].glosses[language]
    ELSE bliss_nodes[symbol_id].glosses.en

\* C21 (gloss language selection): the gloss lookup of a dictionary symbol in
\* a language gives the symbol's gloss list of that language when it has one
\* and its English gloss list otherwise, on its own and for the classifier
\* and the specifiers of an analyzed composition.
C21_GlossLanguage ==
    /\ (op = "get_symbol_glosses" /\ args.symbol_id \in DOMAIN bliss_nodes) =>
           result.glosses = GlossesIn(args.symbol_id, args.language)
    /\ (Analyzed /\ "error" \notin DOMAIN result) =>
           /\ result.classifier \in DOMAIN bliss_nodes =>
                  result.classifier_info.gloss =
                      GlossesIn(result.classifier, args.language)
           /\ \A k \in 1..Len(result.specifiers) :
                  result.specifiers[k] \in DOMAIN bliss_nodes =>
                      result.specifier_info[k].gloss =
                          GlossesIn(result.specifiers[k], args.language)

\* C21: the Swedish glosses asked of a symbol that has English glosses only
C21_Witness ==
    /\ op = "get_symbol_glosses"
    /\ args.symbol_id \in DOMAIN bliss_nodes
    /\ args.language = "sv"
    /\ "sv" \notin DOMAIN bliss_nodes[args.symbol_id].glosses
    /\ result.glosses = bliss_nodes[args.symbol_id].glosses.en
    /\ result.glosses # <<>>

\* C22 (construction type check): constructing the engine with an argument
\* that is not a dict raises TypeError and leaves no engine, so that no call
\* can follow; constructing it with a dict gives an engine whose dictionary is
\* that dict and that can be called.
C22_ConstructionTypeCheck ==
    op = "__init__" =>
        IF "dict" \in DOMAIN args.bliss_dict
        THEN /\ bliss_dict = args.bliss_dict.dict
             /\ ENABLED Next
        ELSE /\ "raises" \in DOMAIN result
             /\ result.raises = "TypeError"
             /\ bliss_dict = None
             /\ gloss_to_id = None
             /\ semantic_path_to_id = None
             /\ ~ENABLED Next

\* C22: the construction with the empty list
C22_Witness ==
    /\ op = "__init__"
    /\ args.bliss_dict = [list |-> <<>>]
    /\ "raises" \in DOMAIN result

\* whether the entries of sub from position i on are, in this order, among
\* the entries of seq from position j on
RECURSIVE SubsequenceFrom(_, _, _, _)
SubsequenceFrom(sub, i, seq, j) ==
    IF i > Len(sub)
    THEN TRUE
    ELSE IF j > Len(seq)
    THEN FALSE
    ELSE IF sub[i] = seq[j]
    THEN SubsequenceFrom(sub, i + 1, seq, j + 1)
    ELSE SubsequenceFrom(sub, i, seq, j + 1)

IsSubsequence(sub, seq) == SubsequenceFrom(sub, 1, seq, 1)

\* C23 (order preservation): the specifiers, the indicators and the modifiers
\* of a classification are each a subsequence of the filtered input.
C23_OrderPreserved ==
    Classified =>
        /\ IsSubsequence(result.specifiers, Filtered)
        /\ IsSubsequence(result.indicators, Filtered)
        /\ IsSubsequence(result.modifiers, Filtered)

\* C23: under the indicator-anchored rule, a modifier in front of the
\* classifier and another modifier after the indicator
C23_Witness ==
    /\ Classified
    /\ IndicatorPositions # {}
    /\ Len(result.modifiers) = 2
    /\ result.modifiers[1] # result.modifiers[2]
    /\ result.modifiers[1] = Filtered[1]
    /\ result.modifiers[2] = Filtered[Len(Filtered)]

\* the role a fact of the semantics list is tagged with
FactRole(fact) ==
    IF "type" \in DOMAIN fact THEN fact.type
    ELSE IF "indicator" \in DOMAIN fact THEN "indicator"
    ELSE "modifier"

\* C24 (semantic fact ordering): the semantics of an analyzed composition
\* that classifies without error are the facts of its indicators that are keys
\* of INDICATOR_SEMANTICS, in classified order, followed by the facts of its
\* modifiers that are keys of MODIFIER_SEMANTICS, in classified order: one
\* fact per such id, each tagged with the id and its role.
C24_FactOrder ==
    (Analyzed /\ "error" \notin DOMAIN result) =>
        LET ind == Project(result.indicators, Keys(INDICATOR_SEMANTICS))
            mod == Project(result.modifiers, Keys(MODIFIER_SEMANTICS))
        IN  /\ Len(result.semantics) = Len(ind) + Len(mod)
            /\ \A k \in 1..Len(ind) :
                /\ result.semantics[k].symbol_id = ind[k]
                /\ FactRole(result.semantics[k]) = "indicator"
            /\ \A k \in 1..Len(mod) :
                /\ result.semantics[Len(ind) + k].symbol_id = mod[k]
                /\ FactRole(result.semantics[Len(ind) + k]) = "modifier"

\* C24: a composition whose modifier stands before its indicator, and with a
\* prefix modifier that has no entry in MODIFIER_SEMANTICS
C24_Witness ==
    /\ Analyzed
    /\ "error" \notin DOMAIN result
    /\ Len(result.indicators) = 1
    /\ Len(result.modifiers) = 2
    /\ Len(result.semantics) = 2
    /\ is_modifier(Strings[1])
    /\ FactRole(result.semantics[1]) = "indicator"
    /\ FactRole(result.semantics[2]) = "modifier"

\* the table of a role, as it is now
RoleTable(role) ==
    IF role = "indicator" THEN tables.indicator ELSE tables.modifier

\* C25 (extractSemantics shape): _extract_semantics(id, role) is None when id
\* is no key of the table of the role, whatever the other table holds;
\* otherwise it is a fact tagged with id that carries the whole "or" list of
\* the entry as its alternatives, or the whole "and" list as its combined, or
\* the one type/value pair of a simple entry under the role.
C25_ExtractShape ==
    op = "_extract_semantics" =>
        LET table == RoleTable(args.symbol_type)
        IN  /\ (\A k \in 1..Len(table) : table[k][1] # args.symbol_id) => result = None
            /\ \A k \in 1..Len(table) :
                table[k][1] = args.symbol_id =>
                    LET entry == table[k][2]
                    IN  /\ result # None
                        /\ result.symbol_id = args.symbol_id
                        /\ "or" \in DOMAIN entry =>
                               /\ DOMAIN result = {"symbol_id", "type", "alternatives"}
                               /\ result.type = args.symbol_type
                               /\ result.alternatives = entry["or"]
                        /\ "and" \in DOMAIN entry =>
                               /\ DOMAIN result = {"symbol_id", "type", "combined"}
                               /\ result.type = args.symbol_type
                               /\ result.combined = entry["and"]
                        /\ "type" \in DOMAIN entry =>
                               /\ DOMAIN result = {"symbol_id", args.symbol_type}
                               /\ result[args.symbol_type] =
                                      << <<entry.type, entry.value>> >>

\* C25: the fact of a modifier whose entry is a list of two alternatives
C25_Witness ==
    /\ op = "_extract_semantics"
    /\ args.symbol_type = "modifier"
    /\ result # None
    /\ "alternatives" \in DOMAIN result
    /\ Len(result.alternatives) = 2

\* the {type, value} pairs of a table entry: the entry itself when it is
\* simple, the pairs of its "or" list or of its "and" list otherwise
PairsOf(entry) ==
    IF "or" \in DOMAIN entry THEN Range(entry["or"])
    ELSE IF "and" \in DOMAIN entry THEN Range(entry["and"])
    ELSE {entry}

\* INDICATOR_SEMANTICS followed by MODIFIER_SEMANTICS, as they are now
BothTables == tables.indicator \o tables.modifier

\* the positions in BothTables of the entries with a pair of type T and of
\* value v up to letter case
MatchPositions(T, v) ==
    {i \in 1..Len(BothTables) :
        \E pair \in PairsOf(BothTables[i][2]) :
            pair.type = T /\ lower(pair.value) = lower(v)}

\* the single-key items of a list that some entry of a table matches
Matched(semantics) ==
    SelectSeq(semantics, LAMBDA item :
        Len(item) = 1 /\ MatchPositions(item[1][1], item[1][2]) # {})

\* C26 (semantic item resolution order): the ids that a specification's
\* single-key semantic items add to the composition are, item by item, the id
\* of the first matching entry of INDICATOR_SEMANTICS followed by
\* MODIFIER_SEMANTICS, so an indicator is chosen before a modifier that also
\* matches; "No symbol found for semantic" is warned once for each single-key
\* item that no entry of either table matches, and for no other item.
C26_ResolutionOrder ==
    (op = "compose_from_semantic" /\ "composition" \in DOMAIN result) =>
        LET semantics == Get(args.semantic_spec, "semantics", <<>>)
            matched == Matched(semantics)
            n == Len(result.composition)
        IN  /\ n > Len(matched)
            /\ \A k \in 1..Len(matched) :
                result.composition[n - Len(matched) + k] =
                    BothTables[First(MatchPositions(matched[k][1][1],
                                                    matched[k][1][2]))][1]
            /\ Warnings("No symbol found for semantic") =
                   Count(semantics, LAMBDA item :
                       Len(item) = 1 /\ MatchPositions(item[1][1], item[1][2]) = {})

\* C26: an item that an indicator and a modifier both match, followed by an
\* item that only an alternative of a modifier's "or" entry matches
C26_Witness ==
    /\ op = "compose_from_semantic"
    /\ "composition" \in DOMAIN result
    /\ "semantics" \in DOMAIN args.semantic_spec
    /\ \E k \in 1..Len(args.semantic_spec.semantics) :
        LET item == args.semantic_spec.semantics[k]
        IN  /\ Len(item) = 1
            /\ \E i \in MatchPositions(item[1][1], item[1][2]) :
                   i <= Len(INDICATOR_SEMANTICS)
            /\ \E i \in MatchPositions(item[1][1], item[1][2]) :
                   i > Len(INDICATOR_SEMANTICS)
    /\ id9011 \in Range(result.composition)
    /\ args.semantic_spec.semantics[Len(args.semantic_spec.semantics)] =
           << <<QUANTIFIER, much>> >>
    /\ result.composition[Len(result.composition)] = id15460

\* the engine and what it reads: the dictionary, the reverse indices, the
\* membership sets and the semantic tables
Engine == <<bliss_dict, gloss_to_id, semantic_path_to_id, modifiers, indicators, tables>>

\* the engine is what the constructor built from its argument and the
\* tables are what the module imported
AsConstructed ==
    /\ op = "__init__" => bliss_dict = args.bliss_dict.dict
    /\ bliss_dict \in DictOrders
    /\ gloss_to_id = BuildGlossToId(bliss_dict, 1, <<>>)
    /\ semantic_path_to_id = BuildSemanticPathToId(bliss_dict, 1, <<>>)
    /\ modifiers = Keys(MODIFIER_SEMANTICS)
    /\ indicators = Keys(INDICATOR_SEMANTICS)
    /\ tables = [indicator |-> INDICATOR_SEMANTICS, modifier |-> MODIFIER_SEMANTICS]

\* the calls of the engine
CallNames ==
    Predicates \cup {"classify_composition", "compose_with_ids", "compose_from_semantic",
                     "_find_symbol_by_gloss", "analyze_composition",
                     "get_symbol_glosses", "_extract_semantics"}

\* C27 (read-only after construction): in every sequence of calls of one
\* thread, and with the calls of one thread running inside a call of the
\* other, no step changes the dictionary, gloss_to_id, semantic_path_to_id,
\* the membership sets or the semantic tables: they stay what the constructor
\* built and the module imported.  So what a call returned, in either thread,
\* is what that call returns on the engine as constructed, whatever calls
\* ran before it or while it was under way.
C27_ReadOnly ==
    /\ [](bliss_dict # None =>
             /\ AsConstructed
             /\ op \in CallNames => result = Call(op, args)
             /\ (other.op # "idle" /\ ~other.running) =>
                    other.result = Call(other.op, other.args))
    /\ [][UNCHANGED Engine]_vars

\* C27: the first thread has made a gloss lookup that the scan resolved,
\* inside a call of the second thread that reads gloss_to_id and has not
\* returned yet
C27_Witness ==
    /\ other.running
    /\ other.op = "_find_symbol_by_gloss"
    /\ op = "_find_symbol_by_gloss"
    /\ args.gloss \notin DOMAIN gloss_to_id
    /\ result # None

\* the table of a role as the module is imported
ImportedTable(role) ==
    IF role = "indicator" THEN INDICATOR_SEMANTICS ELSE MODIFIER_SEMANTICS

\* C28 (fresh results): whatever a caller did to the results of earlier calls,
\* the fact that _extract_semantics returns carries the alternatives or the
\* combined list of the entry as the table was imported.
C28_FreshResults ==
    (op = "_extract_semantics" /\ result # None) =>
        \A k \in 1..Len(ImportedTable(args.symbol_type)) :
            LET entry == ImportedTable(args.symbol_type)[k]
            IN  entry[1] = args.symbol_id =>
                    /\ "or" \in DOMAIN entry[2] => result.alternatives = entry[2]["or"]
                    /\ "and" \in DOMAIN entry[2] => result.combined = entry[2]["and"]

\* C29 (error/classifier equivalence): a classification has a null classifier
\* exactly when it has an error; it never has more than one error; with an
\* error it has no indicator, and it has a specifier or a modifier only when
\* the filtered input has no indicator, which is when the part-of-speech rule
\* ran.
C29_ErrorIffNoClassifier ==
    Classified =>
        /\ (result.classifier = None) <=> (result.errors # <<>>)
        /\ Len(result.errors) <= 1
        /\ result.errors # <<>> =>
               /\ result.indicators = <<>>
               /\ (result.specifiers # <<>> \/ result.modifiers # <<>>) =>
                      (Filtered # <<>> /\ IndicatorPositions = {})

\* C29: an error of the fallback after the part-of-speech rule has filled
\* the modifiers and the specifiers
C29_Witness ==
    /\ Classified
    /\ result.errors # <<>>
    /\ result.classifier = None
    /\ result.modifiers # <<>>
    /\ result.specifiers # <<>>

\* the dictionary positions of the symbols with, in some language, a gloss
\* equal to g up to letter case
HoldersAnyCase(g) ==
    {i \in 1..Len(bliss_dict) :
        \E lang \in DOMAIN bliss_nodes[bliss_dict[i]].glosses :
            \E gloss \in Range(bliss_nodes[bliss_dict[i]].glosses[lang]) :
                lower(gloss) = lower(g)}

\* C30 (findByGloss completeness): _find_symbol_by_gloss(g) is None exactly
\* when no symbol has, in any language, a gloss equal to g up to letter case;
\* the id it returns is the one gloss_to_id holds for g when g is a key of it,
\* and otherwise the first symbol in dictionary order with such a gloss,
\* character or not.
C30_FindByGloss ==
    op = "_find_symbol_by_gloss" =>
        /\ (result = None) <=> (HoldersAnyCase(args.gloss) = {})
        /\ result # None =>
               \E i \in HoldersAnyCase(args.gloss) : bliss_dict[i] = result
        /\ args.gloss \in DOMAIN gloss_to_id => result = gloss_to_id[args.gloss]
        /\ (args.gloss \notin DOMAIN gloss_to_id /\ HoldersAnyCase(args.gloss) # {}) =>
               result = bliss_dict[First(HoldersAnyCase(args.gloss))]

\* C30: a gloss that is no key of gloss_to_id and that a composed word has
\* before a character in the dictionary
C30_Witness ==
    /\ op = "_find_symbol_by_gloss"
    /\ args.gloss \notin DOMAIN gloss_to_id
    /\ result # None
    /\ ~bliss_nodes[result].isCharacter
    /\ \E i \in HoldersAnyCase(args.gloss) : bliss_nodes[bliss_dict[i]].isCharacter

=============================================================================
